---------------------------- MODULE Spec2Model ----------------------------
(***************************************************************************)
(* A model of the quantization-and-dithering engine of pixforge            *)
(* (src/pixforge/dithers): the level selector, the uniform quantizer, the  *)
(* Bayer matrix, the three error-diffusion loops, ordered dithering and    *)
(* the dispatcher apply_dither.                                            *)
(*                                                                         *)
(* Arrays are functions over 0-based index ranges, as in the code.  The    *)
(* float32 working values of the diffusion loops are modelled as exact     *)
(* dyadic rationals (see Float below): every weight of every kernel is a   *)
(* small integer over a power of two, so exact arithmetic is what float32  *)
(* computes as long as the values fit its 24-bit mantissa, which holds for *)
(* the buffers of at most MaxPixels pixels that the bounds below produce.   *)
(***************************************************************************)
EXTENDS Integers, Sequences, FiniteSets, TLC

VARIABLES
    pc,           \* position of the call: "call", the engine's loop, "return", "raise"
    fn,           \* the function that was called
    arg,          \* its scalar arguments (a record)
    numba,        \* whether the optional numba import succeeded (njit is not None)
    image_array,  \* the caller's array argument (NoArray for the scalar functions)
    L,            \* the local L of apply_dither / of the engine
    m,            \* the local m = method.lower() of apply_dither
    engine,       \* the engine apply_dither routed to (a record), or NoEngine
    work,         \* the float working buffer of an error-diffusion loop
    scan,         \* the loop position [y, x] of an error-diffusion loop
    ret,          \* the returned value or the raised exception
    nbuf,         \* number of array buffers allocated so far
    pipe,         \* the locals of the image pipeline (main, process_frame)
    video,        \* the locals, the capture and the files of video_frames.main
    ui            \* the state of the Tk application of ui.py, its timers and threads

vars == <<pc, fn, arg, numba, image_array, L, m, engine, work, scan, ret, nbuf, pipe,
          video, ui>>

-----------------------------------------------------------------------------
(* Bounds of the model *)

\* largest num_colors handed to _levels_from_num_colors on its own
MaxNumColors == 256
\* largest level count handed to the quantizers on their own
MaxLevels == 8
\* largest size handed to _bayer_matrix on its own
MaxBayerN == 16
\* largest number of pixels (H * W) of the generated input images
MaxPixels == 4

NoArray == [isarray |-> FALSE]
NoPipe == [ops |-> <<>>]
NoVideo == [idx |-> 0]
NoUi == [now |-> 0]
NoValue == [kind |-> "none"]

Exception(name) == [kind |-> "exception", type |-> name]
IntValue(v) == [kind |-> "int", val |-> v]
ArrayValue(a) == [kind |-> "array", val |-> a]

-----------------------------------------------------------------------------
(* Integer helpers *)

Max(a, b) == IF a >= b THEN a ELSE b
Min(a, b) == IF a <= b THEN a ELSE b

\* np.clip(v, lo, hi) == minimum(maximum(v, lo), hi)
Clip(v, lo, hi) == Min(Max(v, lo), hi)

\* Rint as floor(x + 0.5): ties rounded up
RintHalfUp(p, q) == (2 * p + q) \div (2 * q)

\* np.rint / Python round of the rational p / q (q > 0): nearest integer,
\* ties to the even neighbour
Rint(p, q) ==
    LET a == p \div q
        r == p % q
    IN  IF 2 * r < q THEN a
        ELSE IF 2 * r > q THEN a + 1
        ELSE IF a % 2 = 0 THEN a ELSE a + 1

\* Python's a & b on unbounded two's-complement integers
RECURSIVE BitAnd(_, _)
BitAnd(a, b) ==
    IF a = 0 \/ b = 0 THEN 0
    ELSE IF a = -1 THEN b
    ELSE IF b = -1 THEN a
    ELSE 2 * BitAnd(a \div 2, b \div 2) + (a % 2) * (b % 2)

-----------------------------------------------------------------------------
(* LevelSelector: _levels_from_num_colors *)

\* int(round(num_colors ** (1 / 3))): the integer nearest to the cube root.
\* No integer has a cube root of the form k + 1/2, so the tie rule is moot.
CubeRootRound(n) ==
    CHOOSE R \in 0..n : (2 * R - 1) * (2 * R - 1) * (2 * R - 1) <= 8 * n
                        /\ 8 * n < (2 * R + 1) * (2 * R + 1) * (2 * R + 1)

\* LevelsDecrement with the first loop left out
LevelsNoDecrement(l, num_colors) == l

\* while L ** 3 > num_colors and L > 2: L -= 1
RECURSIVE LevelsDecrement(_, _)
LevelsDecrement(l, num_colors) ==
    IF l * l * l > num_colors /\ l > 2
    THEN LevelsDecrement(l - 1, num_colors)
    ELSE l

\* while (L + 1) ** 3 <= num_colors: L += 1
RECURSIVE LevelsIncrement(_, _)
LevelsIncrement(l, num_colors) ==
    IF (l + 1) * (l + 1) * (l + 1) <= num_colors
    THEN LevelsIncrement(l + 1, num_colors)
    ELSE l

\* the value returned for num_colors >= 2
LevelsFromNumColors(num_colors) ==
    LET l0 == Max(2, CubeRootRound(num_colors))
        l1 == LevelsDecrement(l0, num_colors)
        l2 == LevelsIncrement(l1, num_colors)
    IN  Max(2, l2)

\* the whole function: raise for num_colors < 2, else return the level count
levels_from_num_colors(num_colors) ==
    IF num_colors < 2
    THEN Exception("ValueError")
    ELSE IntValue(LevelsFromNumColors(num_colors))

-----------------------------------------------------------------------------
(* UniformQuantizer on one uint8 sample: _quantize_none *)

\* QuantLevel truncating instead of rounding
QuantLevelFloor(s, l) == Clip((s * (l - 1)) \div 255, 0, l - 1)

\* q = rint(s * (L - 1) / 255).clip(0, L - 1)
QuantLevel(s, l) == Clip(Rint(s * (l - 1), 255), 0, l - 1)

\* out = rint(q * (255 / (L - 1))).clip(0, 255)
LevelValue(q, l) == Clip(Rint(q * 255, l - 1), 0, 255)

\* QuantizeNoneSample returning the sample unchanged for L <= 1
QuantizeNoneSampleKeep(s, l) ==
    IF l <= 1 THEN s ELSE LevelValue(QuantLevel(s, l), l)

\* _quantize_none on one sample
QuantizeNoneSample(s, l) ==
    IF l <= 1 THEN 0 ELSE LevelValue(QuantLevel(s, l), l)

-----------------------------------------------------------------------------
(* Bayer matrix: _bayer_matrix *)

\* BayerBlock with the two off-diagonal blocks exchanged
BayerBlockSwapped(prev, k) ==
    [i \in 0..(2 * k - 1) |->
        [j \in 0..(2 * k - 1) |->
            LET a == 4 * prev[i % k][j % k]
            IN  IF i < k
                THEN (IF j < k THEN a + 0 ELSE a + 3)
                ELSE (IF j < k THEN a + 2 ELSE a + 1)]]

\* np.block([[a + 0, a + 2], [a + 3, a + 1]]) with a = 4 * prev, prev k x k
BayerBlock(prev, k) ==
    [i \in 0..(2 * k - 1) |->
        [j \in 0..(2 * k - 1) |->
            LET a == 4 * prev[i % k][j % k]
            IN  IF i < k
                THEN (IF j < k THEN a + 0 ELSE a + 2)
                ELSE (IF j < k THEN a + 3 ELSE a + 1)]]

\* the inner function build(k)
RECURSIVE build(_)
build(k) ==
    IF k = 1
    THEN [i \in 0..0 |-> [j \in 0..0 |-> 0]]
    ELSE BayerBlock(build(k \div 2), k \div 2)

\* BayerSizeRejected with the positivity test off by one
BayerSizeRejectedOne(n) == BitAnd(n, n - 1) # 0 \/ n <= 1

\* the guard of _bayer_matrix: n & (n - 1) != 0 or n <= 0
BayerSizeRejected(n) == BitAnd(n, n - 1) # 0 \/ n <= 0

bayer_matrix(n) ==
    IF BayerSizeRejected(n)
    THEN Exception("ValueError")
    ELSE [kind |-> "matrix", n |-> n, val |-> build(n)]

-----------------------------------------------------------------------------
(* Float: the values of the working buffer.                                *)
(* A value is i + 0.f, i an integer (the floor) and f the fraction written *)
(* in base FBase, most significant digit first, without trailing zeros.    *)
(* TLC's integers are 32 bits wide; the digits keep every product small.   *)

FBase == 2 ^ 15

FInt(n) == [i |-> n, f |-> <<>>]

RECURSIVE FTrimDigits(_)
FTrimDigits(f) ==
    IF f = <<>> THEN <<>>
    ELSE IF f[Len(f)] = 0 THEN FTrimDigits(SubSeq(f, 1, Len(f) - 1))
    ELSE f

\* v + n for an integer n (new and old differ by err = old - new)
FAddInt(v, n) == [i |-> v.i + n, f |-> v.f]

RECURSIVE FMulDigits(_, _)
FMulDigits(f, c) ==
    IF f = <<>> THEN [carry |-> 0, f |-> <<>>]
    ELSE LET rest == FMulDigits(Tail(f), c)
             t == Head(f) * c + rest.carry
         IN  [carry |-> t \div FBase, f |-> <<t % FBase>> \o rest.f]

\* v * c for an integer c >= 0
FMul(v, c) ==
    LET r == FMulDigits(v.f, c)
    IN  [i |-> v.i * c + r.carry, f |-> FTrimDigits(r.f)]

RECURSIVE FShrDigits(_, _, _)
FShrDigits(f, r, d) ==
    IF f = <<>> THEN (IF r = 0 THEN <<>> ELSE <<r * (FBase \div d)>>)
    ELSE LET t == r * FBase + Head(f)
         IN  <<t \div d>> \o FShrDigits(Tail(f), t % d, d)

\* v / d for d a power of two, d <= FBase
FDiv(v, d) == [i |-> v.i \div d, f |-> FTrimDigits(FShrDigits(v.f, v.i % d, d))]

RECURSIVE FAddDigits(_, _)
FAddDigits(f, g) ==
    IF f = <<>> /\ g = <<>> THEN [carry |-> 0, f |-> <<>>]
    ELSE LET hf == IF f = <<>> THEN 0 ELSE Head(f)
             hg == IF g = <<>> THEN 0 ELSE Head(g)
             rest == FAddDigits(IF f = <<>> THEN <<>> ELSE Tail(f),
                                IF g = <<>> THEN <<>> ELSE Tail(g))
             t == hf + hg + rest.carry
         IN  [carry |-> t \div FBase, f |-> <<t % FBase>> \o rest.f]

\* v + w
FAdd(v, w) ==
    LET r == FAddDigits(v.f, w.f)
    IN  [i |-> v.i + w.i + r.carry, f |-> FTrimDigits(r.f)]

\* the fraction 0.f against one half: -1 below, 0 equal, 1 above
FracCmpHalf(f) ==
    IF f = <<>> THEN -1
    ELSE IF f[1] < FBase \div 2 THEN -1
    ELSE IF f[1] > FBase \div 2 \/ Len(f) > 1 THEN 1
    ELSE 0

\* np.rint(v): nearest integer, ties to even
FRint(v) ==
    LET c == FracCmpHalf(v.f)
    IN  IF c < 0 THEN v.i
        ELSE IF c > 0 THEN v.i + 1
        ELSE IF v.i % 2 = 0 THEN v.i ELSE v.i + 1

\* np.rint(t / 255.0): t = 255 a + r + 0.f with 0 <= r < 255; the quotient's
\* fraction (r + 0.f) / 255 is compared with one half, i.e. r + 0.f with 127.5
FRintDiv255(t) ==
    LET a == t.i \div 255
        r == t.i % 255
        c == IF r < 127 THEN -1 ELSE IF r > 127 THEN 1 ELSE FracCmpHalf(t.f)
    IN  IF c < 0 THEN a
        ELSE IF c > 0 THEN a + 1
        ELSE IF a % 2 = 0 THEN a ELSE a + 1

-----------------------------------------------------------------------------
(* The per-pixel quantizer of the diffusion loops: _quantize_levels, and    *)
(* the same arithmetic written inline in the numba loops.                   *)

\* q = clip(rint(pixel * (L - 1) / 255), 0, L - 1); out = clip(rint(q * (255 / (L - 1))), 0, 255)
QuantizeLevels(v, l) ==
    LevelValue(Clip(FRintDiv255(FMul(v, l - 1)), 0, l - 1), l)

-----------------------------------------------------------------------------
(* Arrays.  An ndarray is a record: the identity of its buffer (id), its   *)
(* shape and its samples px[y][x][c].                                      *)

Channels == 0..2

\* the three channel values of f, stored
PerChannel(f) == (0 :> f[0]) @@ (1 :> f[1]) @@ (2 :> f[2])

\* the array of the n values f[0], ..., f[n - 1], n >= 1, stored element by element
RECURSIVE Stored(_, _)
Stored(f, n) ==
    IF n = 1 THEN (0 :> f[0]) ELSE Stored(f, n - 1) @@ ((n - 1) :> f[n - 1])

Image(id, H, W, px) ==
    [isarray |-> TRUE, id |-> id, dtype |-> "uint8", shape |-> <<H, W, 3>>, px |-> px]

\* the guard of apply_dither: isinstance(..., np.ndarray), ndim == 3, shape[2] == 3
IsRGBArray(a) == a.isarray /\ Len(a.shape) = 3 /\ a.shape[3] = 3

Height(a) == a.shape[1]
Width(a) == a.shape[2]

\* WorkingCopy without the copy: the working array shares the caller's buffer
WorkingAlias(arr, id) ==
    [id |-> arr.id,
     px |-> [y \in 0..(Height(arr) - 1) |->
                [x \in 0..(Width(arr) - 1) |->
                    [c \in Channels |-> FInt(arr.px[y][x][c])]]]]

\* arr.astype(np.float32).copy(): a new buffer holding the samples as floats
WorkingCopy(arr, id) ==
    [id |-> id,
     px |-> Stored([y \in 0..(Height(arr) - 1) |->
                       Stored([x \in 0..(Width(arr) - 1) |->
                                  PerChannel([c \in Channels |-> FInt(arr.px[y][x][c])])],
                              Width(arr))],
                   Height(arr))]

\* np.clip(np.rint(work), 0, 255).astype(np.uint8): a new uint8 array
RoundedArray(w, H, W, id) ==
    Image(id, H, W,
          [y \in 0..(H - 1) |->
              [x \in 0..(W - 1) |->
                  [c \in Channels |-> Clip(FRint(w.px[y][x][c]), 0, 255)]]])

\* _quantize_none(arr, L): a new uint8 array, all zero for L <= 1
QuantizeNoneArray(arr, l, id) ==
    Image(id, Height(arr), Width(arr),
          [y \in 0..(Height(arr) - 1) |->
              [x \in 0..(Width(arr) - 1) |->
                  [c \in Channels |-> QuantizeNoneSample(arr.px[y][x][c], l)]]])

\* a value is an array (not an exception)
IsArray(v) == "isarray" \in DOMAIN v

-----------------------------------------------------------------------------
(* The resizing helpers of utils/.  Each returns a new array or raises.     *)

\* upscale_nearest(arr, factor): np.repeat along both axes
UpscaleNearest(arr, factor, id) ==
    IF ~IsRGBArray(arr) \/ factor < 1 THEN Exception("ValueError")
    ELSE IF factor = 1 THEN [arr EXCEPT !.id = id]
    ELSE Image(id, Height(arr) * factor, Width(arr) * factor,
               [y \in 0..(Height(arr) * factor - 1) |->
                   [x \in 0..(Width(arr) * factor - 1) |->
                       arr.px[y \div factor][x \div factor]]])

\* _pad_to_multiple(arr, factor): np.pad(..., mode="edge") at the bottom and right
PadToMultiple(arr, factor) ==
    LET pad_h == (factor - (Height(arr) % factor)) % factor
        pad_w == (factor - (Width(arr) % factor)) % factor
    IN  Image(arr.id, Height(arr) + pad_h, Width(arr) + pad_w,
              [y \in 0..(Height(arr) + pad_h - 1) |->
                  [x \in 0..(Width(arr) + pad_w - 1) |->
                      arr.px[Min(y, Height(arr) - 1)][Min(x, Width(arr) - 1)]]])

\* downscale_block_average(arr, factor): padded[0:Hp:factor, 0:Wp:factor]
\* cropped to (H // factor, W // factor); a slice shares the buffer of arr
\* unless arr was padded
DownscaleBlockAverage(arr, factor, id) ==
    IF ~IsRGBArray(arr) \/ factor < 1 THEN Exception("ValueError")
    ELSE IF factor = 1 THEN [arr EXCEPT !.id = id]
    ELSE LET target_h == Height(arr) \div factor
             target_w == Width(arr) \div factor
             padded == PadToMultiple(arr, factor)
         IN  IF target_h = 0 \/ target_w = 0 THEN Exception("ValueError")
             ELSE Image(IF padded.shape = arr.shape THEN arr.id ELSE id, target_h, target_w,
                        [i \in 0..(target_h - 1) |->
                            [j \in 0..(target_w - 1) |-> padded.px[i * factor][j * factor]]])

\* resize_nearest(arr, new_h, new_w): row i reads row clip(rint(i * (H / new_h)), 0, H - 1)
ResizeNearest(arr, new_h, new_w, id) ==
    IF ~IsRGBArray(arr) \/ new_h < 1 \/ new_w < 1 THEN Exception("ValueError")
    ELSE IF Height(arr) = new_h /\ Width(arr) = new_w THEN [arr EXCEPT !.id = id]
    ELSE Image(id, new_h, new_w,
               [i \in 0..(new_h - 1) |->
                   [j \in 0..(new_w - 1) |->
                       arr.px[Clip(Rint(i * Height(arr), new_h), 0, Height(arr) - 1)]
                             [Clip(Rint(j * Width(arr), new_w), 0, Width(arr) - 1)]]])

\* a float scale factor as the fraction num / den
Scale(num, den) == [num |-> num, den |-> den]

\* 1.0 / scale
Inverse(scale) == [num |-> scale.den, den |-> scale.num]

\* max(1, int(round(n * scale)))
ResizedLength(n, scale) == Max(1, Rint(n * scale.num, scale.den))

\* resize_nearest_scale(arr, scale)
ResizeNearestScale(arr, scale, id) ==
    IF scale.num <= 0 THEN Exception("ValueError")
    ELSE ResizeNearest(arr, ResizedLength(Height(arr), scale),
                       ResizedLength(Width(arr), scale), id)

-----------------------------------------------------------------------------
(* Error-diffusion kernels: (row delta, column delta in scan direction,    *)
(* numerator), over the divisor div.                                       *)

Tap(dy, dx, w) == [dy |-> dy, dx |-> dx, w |-> w]

KernelFloyd ==
    [div |-> 16,
     taps |-> <<Tap(0, 1, 7), Tap(1, -1, 3), Tap(1, 0, 5), Tap(1, 1, 1)>>]

KernelAtkinson ==
    [div |-> 8,
     taps |-> <<Tap(0, 1, 1), Tap(0, 2, 1),
                Tap(1, -1, 1), Tap(1, 0, 1), Tap(1, 1, 1),
                Tap(2, 0, 1)>>]

KernelSierra ==
    [div |-> 32,
     taps |-> <<Tap(0, 1, 5), Tap(0, 2, 3),
                Tap(1, -2, 2), Tap(1, -1, 4), Tap(1, 0, 5), Tap(1, 1, 4), Tap(1, 2, 2),
                Tap(2, -1, 2), Tap(2, 0, 3), Tap(2, 1, 2)>>]

KernelBurkes ==
    [div |-> 32,
     taps |-> <<Tap(0, 1, 8), Tap(0, 2, 4),
                Tap(1, -2, 2), Tap(1, -1, 4), Tap(1, 0, 8), Tap(1, 1, 4), Tap(1, 2, 2)>>]

DiffusionFns == {"dither_floyd", "dither_atkinson", "dither_burkes", "dither_sierra"}

\* KernelOf with the first tap of each kernel pointing against the scan
KernelOfBehind(f) ==
    LET k == CASE f = "dither_floyd" -> KernelFloyd
               [] f = "dither_atkinson" -> KernelAtkinson
               [] f = "dither_sierra" -> KernelSierra
               [] f = "dither_burkes" -> KernelBurkes
    IN  [k EXCEPT !.taps[1] = Tap(0, -1, @.w)]

KernelOf(f) ==
    CASE f = "dither_floyd" -> KernelFloyd
      [] f = "dither_atkinson" -> KernelAtkinson
      [] f = "dither_sierra" -> KernelSierra
      [] f = "dither_burkes" -> KernelBurkes

\* the three loops of src/ exist twice: a numba loop reading work[y, x, c] as
\* scalars, and a fallback loop in which old = work[y, x] is a view of the row
\* of the working buffer, read again after work[y, x] = new was stored
OldIsView(f, nb) == f \in {"dither_floyd", "dither_atkinson", "dither_sierra"} /\ ~nb

\* dir_sign / step_dir of row y
DirSign(y, serpentine) == IF serpentine /\ y % 2 = 1 THEN -1 ELSE 1

\* the bounds tests guarding each +=: y + dy < H and 0 <= x + dx * dir < W
TapInBounds(t, y, x, dir, H, W) ==
    y + t.dy < H /\ 0 <= x + t.dx * dir /\ x + t.dx * dir < W

\* work[y + dy, x + dx * dir] += err * (w / div), on the three channels
AddError(px, t, div, y, x, dir, err) ==
    [px EXCEPT ![y + t.dy][x + t.dx * dir] =
        PerChannel([c \in Channels |-> FAdd(@[c], FDiv(FMul(err[c], t.w), div))])]

\* Distribute without the column tests: a column outside 0..W-1 wraps around
RECURSIVE DistributeWrapped(_, _, _, _, _, _, _, _, _)
DistributeWrapped(px, taps, div, y, x, dir, err, H, W) ==
    IF taps = <<>> THEN px
    ELSE DistributeWrapped(
             IF y + Head(taps).dy < H
             THEN AddError(px, [Head(taps) EXCEPT !.dx = (((x + @ * dir) % W) - x) * dir],
                           div, y, x, dir, err)
             ELSE px,
             Tail(taps), div, y, x, dir, err, H, W)

\* the += statements of one pixel, in the order of the code
RECURSIVE Distribute(_, _, _, _, _, _, _, _, _)
Distribute(px, taps, div, y, x, dir, err, H, W) ==
    IF taps = <<>> THEN px
    ELSE Distribute(IF TapInBounds(Head(taps), y, x, dir, H, W)
                    THEN AddError(px, Head(taps), div, y, x, dir, err)
                    ELSE px,
                    Tail(taps), div, y, x, dir, err, H, W)

\* err = old - new, where old is either the value read before the store or,
\* being a view, the stored value itself
ErrorOf(old, stored, new, view) ==
    PerChannel([c \in Channels |-> FAddInt(IF view THEN stored[c] ELSE old[c], 0 - new[c])])

\* PixelStep without the store work[y, x] = new
PixelStepNoStore(px, kernel, l, y, x, dir, view, H, W) ==
    LET old == px[y][x]
        new == PerChannel([c \in Channels |-> QuantizeLevels(old[c], l)])
        err == ErrorOf(old, old, new, FALSE)
    IN  Distribute(px, kernel.taps, kernel.div, y, x, dir, err, H, W)

\* the body of the loop at pixel (y, x)
PixelStep(px, kernel, l, y, x, dir, view, H, W) ==
    LET old == px[y][x]
        new == PerChannel([c \in Channels |-> QuantizeLevels(old[c], l)])
        stored == PerChannel([c \in Channels |-> FInt(new[c])])
        px1 == [px EXCEPT ![y][x] = stored]
        err == ErrorOf(old, stored, new, view)
    IN  Distribute(px1, kernel.taps, kernel.div, y, x, dir, err, H, W)

\* NextScan entering every row at column 0
NextScanFromLeft(y, x, serpentine, W) ==
    LET nx == x + DirSign(y, serpentine)
    IN  IF 0 <= nx /\ nx < W
        THEN [y |-> y, x |-> nx]
        ELSE [y |-> y + 1, x |-> 0]

\* the pixel visited after (y, x): the next column of the row in scan
\* direction, else the first column of the next row in that row's direction
NextScan(y, x, serpentine, W) ==
    LET nx == x + DirSign(y, serpentine)
    IN  IF 0 <= nx /\ nx < W
        THEN [y |-> y, x |-> nx]
        ELSE [y |-> y + 1, x |-> IF DirSign(y + 1, serpentine) = 1 THEN 0 ELSE W - 1]

-----------------------------------------------------------------------------
(* Ordered dithering: dither_bayer *)

\* BayerSample with the threshold left in [0, 1): T = M / n2
BayerSampleUncentred(v, Mij, n, l) ==
    LET n2 == n * n
        biasNum == v * 2 * n2 * (l - 1) + (2 * Mij) * 255
        q == Clip((biasNum * l) \div (255 * 2 * n2 * (l - 1)), 0, l - 1)
    IN  LevelValue(q, l)

\* one sample: T = M / n2 - 0.5, step = 255 / (L - 1), v_bias = v + T * step,
\* q = floor((v_bias / 255) * L).clip(0, L - 1), out = rint(q * step).clip(0, 255).
\* With T = (2 M - n2) / (2 n2), v_bias = biasNum / (2 n2 (L - 1)).
BayerSample(v, Mij, n, l) ==
    LET n2 == n * n
        biasNum == v * 2 * n2 * (l - 1) + (2 * Mij - n2) * 255
        q == Clip((biasNum * l) \div (255 * 2 * n2 * (l - 1)), 0, l - 1)
    IN  LevelValue(q, l)

\* ThreshIndex taking the row by the number of the tile, not inside the tile
ThreshIndexByTile(y, x, n) == <<(y \div n) % n, x % n>>

\* thresh = np.tile(T, (ty, tx))[:H, :W]: the matrix entry under pixel (y, x)
ThreshIndex(y, x, n) == <<y % n, x % n>>

\* the array dither_bayer returns (the size is one _bayer_matrix accepts)
DitherBayerArray(arr, l, size, id) ==
    IF l < 2
    THEN QuantizeNoneArray(arr, 2, id)
    ELSE LET M == build(size)
         IN  Image(id, Height(arr), Width(arr),
                   [y \in 0..(Height(arr) - 1) |->
                       [x \in 0..(Width(arr) - 1) |->
                           [c \in Channels |->
                               BayerSample(arr.px[y][x][c],
                                           M[ThreshIndex(y, x, size)[1]][ThreshIndex(y, x, size)[2]],
                                           size, l)]]])

-----------------------------------------------------------------------------
(* Method names.  A Python str is a sequence of one-character strings, so  *)
(* that str.lower() is computed letter by letter.                          *)

UpperLetters ==
    <<"A", "B", "C", "D", "E", "F", "G", "H", "I", "J", "K", "L", "M",
      "N", "O", "P", "Q", "R", "S", "T", "U", "V", "W", "X", "Y", "Z">>

LowerLetters ==
    <<"a", "b", "c", "d", "e", "f", "g", "h", "i", "j", "k", "l", "m",
      "n", "o", "p", "q", "r", "s", "t", "u", "v", "w", "x", "y", "z">>

LowerChar(ch) ==
    IF \E k \in 1..26 : UpperLetters[k] = ch
    THEN LowerLetters[CHOOSE k \in 1..26 : UpperLetters[k] = ch]
    ELSE ch

\* Lower without the conversion: the name is compared as given
LowerIdentity(str) == str

\* method.lower()
Lower(str) == [k \in 1..Len(str) |-> LowerChar(str[k])]

StrNone == <<"n", "o", "n", "e">>
StrFloyd == <<"f", "l", "o", "y", "d">>
StrAtkinson == <<"a", "t", "k", "i", "n", "s", "o", "n">>
StrBurkes == <<"b", "u", "r", "k", "e", "s">>
StrSierra == <<"s", "i", "e", "r", "r", "a">>
StrBayer2 == <<"b", "a", "y", "e", "r", "2">>
StrBayer4 == <<"b", "a", "y", "e", "r", "4">>
StrBayer8 == <<"b", "a", "y", "e", "r", "8">>

Callee(f, size, serpentine) == [fn |-> f, size |-> size, serpentine |-> serpentine]

\* Route with a default: an unmatched name falls through to Floyd-Steinberg
RouteDefaultFloyd(low) ==
    IF low = StrNone THEN Callee("_quantize_none", 0, FALSE)
    ELSE IF low = StrAtkinson THEN Callee("dither_atkinson", 0, TRUE)
    ELSE IF low = StrBurkes THEN Callee("dither_burkes", 0, TRUE)
    ELSE IF low = StrSierra THEN Callee("dither_sierra", 0, TRUE)
    ELSE IF low = StrBayer2 THEN Callee("dither_bayer", 2, FALSE)
    ELSE IF low = StrBayer4 THEN Callee("dither_bayer", 4, FALSE)
    ELSE IF low = StrBayer8 THEN Callee("dither_bayer", 8, FALSE)
    ELSE Callee("dither_floyd", 0, TRUE)

\* the chain of if m == "...": return ... of apply_dither; the callee "-" when no
\* comparison succeeds
Route(low) ==
    IF low = StrNone THEN Callee("_quantize_none", 0, FALSE)
    ELSE IF low = StrFloyd THEN Callee("dither_floyd", 0, TRUE)
    ELSE IF low = StrAtkinson THEN Callee("dither_atkinson", 0, TRUE)
    ELSE IF low = StrBurkes THEN Callee("dither_burkes", 0, TRUE)
    ELSE IF low = StrSierra THEN Callee("dither_sierra", 0, TRUE)
    ELSE IF low = StrBayer2 THEN Callee("dither_bayer", 2, FALSE)
    ELSE IF low = StrBayer4 THEN Callee("dither_bayer", 4, FALSE)
    ELSE IF low = StrBayer8 THEN Callee("dither_bayer", 8, FALSE)
    ELSE Callee("-", 0, FALSE)

-----------------------------------------------------------------------------
(* Actions *)

Raise(name) ==
    /\ pc' = "raise"
    /\ ret' = Exception(name)

\* apply_dither up to the call of the engine it selects
ApplyDither ==
    /\ pc = "apply_dither"
    /\ IF ~IsRGBArray(image_array) \/ arg.num_colors < 2
       THEN /\ Raise("ValueError")
            /\ UNCHANGED <<L, m, engine>>
       ELSE LET lv == levels_from_num_colors(arg.num_colors)
                low == Lower(arg.method)
                callee == Route(low)
            IN  /\ L' = lv.val
                /\ m' = low
                /\ IF callee.fn = "-"
                   THEN /\ Raise("ValueError")
                        /\ UNCHANGED engine
                   ELSE /\ engine' = callee
                        /\ pc' = callee.fn
                        /\ UNCHANGED ret
    /\ UNCHANGED <<video, ui, pipe, fn, arg, numba, image_array, work, scan, nbuf>>

\* _quantize_none(arr, L): arrf and the returned array are new buffers
QuantizeNone ==
    /\ pc = "_quantize_none"
    /\ ret' = ArrayValue(QuantizeNoneArray(image_array, L, nbuf + 2))
    /\ nbuf' = nbuf + 2
    /\ pc' = "return"
    /\ UNCHANGED <<video, ui, pipe, fn, arg, numba, image_array, L, m, engine, work, scan>>

\* dither_floyd / dither_atkinson / dither_sierra / dither_burkes up to the loop
DiffusionEnter ==
    /\ pc \in DiffusionFns
    /\ work' = WorkingCopy(image_array, nbuf + 2)
    /\ nbuf' = nbuf + 2
    /\ IF L = 1 /\ ~OldIsView(pc, numba)
       THEN /\ Raise("ZeroDivisionError")
            /\ UNCHANGED scan
       ELSE /\ scan' = [y |-> 0, x |-> 0]
            /\ pc' = "scan"
            /\ UNCHANGED ret
    /\ UNCHANGED <<video, ui, pipe, fn, arg, numba, image_array, L, m, engine>>

\* a store into the buffer of the working array reaches every array that
\* shares the buffer
StoreThrough(a, w, H, W) ==
    IF a.isarray /\ a.id = w.id
    THEN [a EXCEPT !.px = RoundedArray(w, H, W, a.id).px]
    ELSE a

\* one iteration of the inner loop
DiffusionPixel ==
    /\ pc = "scan"
    /\ scan.y < Height(image_array)
    /\ IF L = 1
       THEN /\ Raise("ZeroDivisionError")
            /\ UNCHANGED <<work, scan, image_array>>
       ELSE LET H == Height(image_array)
                W == Width(image_array)
                dir == DirSign(scan.y, engine.serpentine)
                w1 == [work EXCEPT !.px =
                          PixelStep(work.px, KernelOf(engine.fn), L, scan.y, scan.x,
                                    dir, OldIsView(engine.fn, numba), H, W)]
            IN  /\ work' = w1
                /\ image_array' = StoreThrough(image_array, w1, H, W)
                /\ scan' = NextScan(scan.y, scan.x, engine.serpentine, W)
                /\ UNCHANGED <<pc, ret>>
    /\ UNCHANGED <<video, ui, pipe, fn, arg, numba, L, m, engine, nbuf>>

\* after the loops: return np.clip(np.rint(work), 0, 255).astype(np.uint8)
DiffusionReturn ==
    /\ pc = "scan"
    /\ scan.y = Height(image_array)
    /\ ret' = ArrayValue(RoundedArray(work, Height(image_array), Width(image_array), nbuf + 1))
    /\ nbuf' = nbuf + 1
    /\ pc' = "return"
    /\ UNCHANGED <<video, ui, pipe, fn, arg, numba, image_array, L, m, engine, work, scan>>

\* dither_bayer(arr, L, size)
DitherBayer ==
    /\ pc = "dither_bayer"
    /\ IF L >= 2 /\ BayerSizeRejected(engine.size)
       THEN /\ Raise("ValueError")
            /\ UNCHANGED nbuf
       ELSE /\ ret' = ArrayValue(DitherBayerArray(image_array, L, engine.size, nbuf + 2))
            /\ nbuf' = nbuf + 2
            /\ pc' = "return"
    /\ UNCHANGED <<video, ui, pipe, fn, arg, numba, image_array, L, m, engine, work, scan>>

\* _levels_from_num_colors(num_colors) called on its own
LevelsFromNumColorsCall ==
    /\ pc = "_levels_from_num_colors"
    /\ ret' = levels_from_num_colors(arg.num_colors)
    /\ pc' = IF ret'.kind = "exception" THEN "raise" ELSE "return"
    /\ UNCHANGED <<video, ui, pipe, fn, arg, numba, image_array, L, m, engine, work, scan, nbuf>>

\* _bayer_matrix(n) called on its own
BayerMatrixCall ==
    /\ pc = "_bayer_matrix"
    /\ ret' = bayer_matrix(arg.n)
    /\ pc' = IF ret'.kind = "exception" THEN "raise" ELSE "return"
    /\ UNCHANGED <<video, ui, pipe, fn, arg, numba, image_array, L, m, engine, work, scan, nbuf>>

\* downscale_block_average(arr, factor) called on its own
DownscaleBlockAverageCall ==
    /\ pc = "downscale_block_average"
    /\ LET r == DownscaleBlockAverage(image_array, arg.factor, nbuf + 1)
       IN  IF IsArray(r)
           THEN /\ ret' = ArrayValue(r)
                /\ pc' = "return"
                /\ nbuf' = nbuf + 1
           ELSE /\ ret' = r
                /\ pc' = "raise"
                /\ UNCHANGED nbuf
    /\ UNCHANGED <<video, ui, pipe, fn, arg, numba, image_array, L, m, engine, work, scan>>

\* resize_nearest_scale(arr, scale) called on its own with an integer scale
ResizeNearestScaleCall ==
    /\ pc = "resize_nearest_scale"
    /\ LET r == ResizeNearestScale(image_array, Scale(arg.scale, 1), nbuf + 1)
       IN  IF IsArray(r)
           THEN /\ ret' = ArrayValue(r)
                /\ pc' = "return"
                /\ nbuf' = nbuf + 1
           ELSE /\ ret' = r
                /\ pc' = "raise"
                /\ UNCHANGED nbuf
    /\ UNCHANGED <<video, ui, pipe, fn, arg, numba, image_array, L, m, engine, work, scan>>

\* _quantize_levels(pixel, L) called on its own
QuantizeLevelsCall ==
    /\ pc = "_quantize_levels"
    /\ IF L = 1
       THEN Raise("ZeroDivisionError")
       ELSE /\ ret' = [kind |-> "pixel",
                       val |-> [c \in Channels |-> QuantizeLevels(arg.pixel[c], L)]]
            /\ pc' = "return"
    /\ UNCHANGED <<video, ui, pipe, fn, arg, numba, image_array, L, m, engine, work, scan, nbuf>>

-----------------------------------------------------------------------------
(* Inputs *)

Color(r, g, b) == [c \in Channels |-> IF c = 0 THEN r ELSE IF c = 1 THEN g ELSE b]

Colors == {Color(0, 128, 255), Color(64, 200, 100)}

SmallShapes ==
    {s \in (1..MaxPixels) \X (1..MaxPixels) : s[1] * s[2] <= MaxPixels}

\* every H x W x 3 uint8 image of at most MaxPixels pixels over Colors
SmallImages ==
    UNION {{Image(1, s[1], s[2], px) :
                px \in [0..(s[1] - 1) -> [0..(s[2] - 1) -> Colors]]} : s \in SmallShapes}

\* the 2 x 2 gray ramp with rows [0, 128] and [255, 64] in every channel
GrayRamp ==
    Image(1, 2, 2,
          [y \in 0..1 |->
              [x \in 0..1 |->
                  IF y = 0
                  THEN (IF x = 0 THEN Color(0, 0, 0) ELSE Color(128, 128, 128))
                  ELSE (IF x = 0 THEN Color(255, 255, 255) ELSE Color(64, 64, 64))]])

ImageInputs == SmallImages \cup {GrayRamp}

\* an H x W image of distinct pixels
PipeImage(H, W) ==
    Image(1, H, W,
          [y \in 0..(H - 1) |->
              [x \in 0..(W - 1) |->
                  Color((40 + 37 * x + 91 * y) % 256,
                        (90 + 61 * x + 23 * y) % 256,
                        (200 + 13 * x + 77 * y) % 256)]])

\* the 8 x 8 image with every sample s
UniformGray(s) ==
    Image(1, 8, 8, [y \in 0..7 |-> [x \in 0..7 |-> Color(s, s, s)]])

\* a 3 x 5 image: its pixel (0, 2) has every neighbour of every kernel in bounds
DiffusionProbe ==
    Image(1, 3, 5,
          [y \in 0..2 |->
              [x \in 0..4 |->
                  Color((40 + 37 * x + 91 * y) % 256,
                        (90 + 61 * x + 23 * y) % 256,
                        (200 + 13 * x + 77 * y) % 256)]])

\* arrays apply_dither must refuse: a rank-2 array, an RGBA array, a list
MalformedImages ==
    {[isarray |-> TRUE, id |-> 1, dtype |-> "uint8", shape |-> <<2, 2>>,
      px |-> [y \in 0..1 |-> [x \in 0..1 |-> 128]]],
     [isarray |-> TRUE, id |-> 1, dtype |-> "uint8", shape |-> <<1, 2, 4>>,
      px |-> [y \in 0..0 |-> [x \in 0..1 |-> [c \in 0..3 |-> 255]]]],
     [isarray |-> FALSE, id |-> 1, dtype |-> "list", shape |-> <<1, 1, 3>>,
      px |-> [y \in 0..0 |-> [x \in 0..0 |-> Color(1, 2, 3)]]]}

RecognisedMethods ==
    {StrNone, StrFloyd, StrAtkinson, StrBurkes, StrSierra, StrBayer2, StrBayer4, StrBayer8}

\* other spellings: letter-casings of recognised names, and unrecognised names
OtherMethods ==
    {<<"F", "L", "O", "Y", "D">>, <<"N", "o", "n", "e">>, <<"B", "a", "y", "e", "r", "4">>,
     <<"s", "i", "e", "r", "r", "A">>,
     <<"b", "a", "y", "e", "r">>, <<"b", "a", "y", "e", "r", "1", "6">>,
     <<"f", "l", "o", "y", "d", " ">>, <<>>}

NumColorsInputs == {2, 27, 343}
BadNumColorsInputs == {-1, 0, 1}

ApplyDitherArgs(method, num_colors) == [method |-> method, num_colors |-> num_colors]

Quiet ==
    /\ L = 0
    /\ m = <<>>
    /\ engine = Callee("-", 0, FALSE)
    /\ work = [id |-> 0, px |-> <<>>]
    /\ scan = [y |-> 0, x |-> 0]
    /\ ret = NoValue
    /\ nbuf = 1
    /\ pipe = NoPipe
    /\ video = NoVideo
    /\ ui = NoUi

\* apply_dither(image_array, num_colors, method)
Init ==
    /\ pc = "apply_dither"
    /\ fn = "apply_dither"
    /\ numba \in BOOLEAN
    /\ \/ /\ image_array \in ImageInputs
          /\ arg \in {ApplyDitherArgs(me, nc) : me \in RecognisedMethods, nc \in NumColorsInputs}
       \/ /\ image_array \in {im \in ImageInputs : Height(im) = 2 /\ Width(im) = 2}
          /\ arg \in {ApplyDitherArgs(me, nc) :
                         me \in RecognisedMethods \cup OtherMethods,
                         nc \in NumColorsInputs \cup BadNumColorsInputs}
       \/ /\ image_array \in MalformedImages
          /\ arg \in {ApplyDitherArgs(me, nc) :
                         me \in RecognisedMethods \cup OtherMethods,
                         nc \in NumColorsInputs \cup BadNumColorsInputs}
       \/ /\ image_array \in {UniformGray(128), DiffusionProbe}
          /\ arg \in {ApplyDitherArgs(me, nc) : me \in RecognisedMethods, nc \in NumColorsInputs}
    /\ Quiet

Next ==
    \/ ApplyDither
    \/ QuantizeNone
    \/ DiffusionEnter
    \/ DiffusionPixel
    \/ DiffusionReturn
    \/ DitherBayer

Spec == Init /\ [][Next]_vars

\* the scalar functions and the quantizers called on their own
InitLeaf ==
    /\ numba \in BOOLEAN
    /\ \/ /\ fn = "_levels_from_num_colors"
          /\ arg \in {[num_colors |-> n] : n \in -1..MaxNumColors}
          /\ image_array = NoArray
          /\ L = 0
          /\ engine = Callee("-", 0, FALSE)
       \/ /\ fn = "_bayer_matrix"
          /\ arg \in {[n |-> n] : n \in -2..MaxBayerN}
          /\ image_array = NoArray
          /\ L = 0
          /\ engine = Callee("-", 0, FALSE)
       \/ /\ fn = "_quantize_none"
          /\ arg = [nothing |-> 0]
          /\ image_array \in {Image(1, 1, 1, [y \in 0..0 |-> [x \in 0..0 |-> Color(s, s, s)]]) :
                                 s \in 0..255}
          /\ L \in -1..MaxLevels
          /\ engine = Callee("-", 0, FALSE)
       \/ /\ fn = "_quantize_levels"
          /\ arg \in {[pixel |-> [c \in Channels |-> FInt(s)]] : s \in 0..255}
          /\ image_array = NoArray
          /\ L \in 1..MaxLevels
          /\ engine = Callee("-", 0, FALSE)
       \/ /\ fn = "dither_bayer"
          /\ arg = [nothing |-> 0]
          /\ image_array \in {UniformGray(s) : s \in 0..255}
          /\ L \in -1..MaxLevels
          /\ engine \in {Callee("dither_bayer", size, FALSE) : size \in {2, 3, 4, 8}}
       \/ /\ fn = "downscale_block_average"
          /\ arg \in {[factor |-> f] : f \in -1..5}
          /\ image_array \in {PipeImage(s[1], s[2]) : s \in (1..4) \X (1..4)}
          /\ L = 0
          /\ engine = Callee("-", 0, FALSE)
       \/ /\ fn = "resize_nearest_scale"
          /\ arg \in {[scale |-> k] : k \in 0..4}
          /\ image_array \in {PipeImage(s[1], s[2]) : s \in (1..4) \X (1..4)}
          /\ L = 0
          /\ engine = Callee("-", 0, FALSE)
    /\ pc = fn
    /\ m = <<>>
    /\ work = [id |-> 0, px |-> <<>>]
    /\ scan = [y |-> 0, x |-> 0]
    /\ ret = NoValue
    /\ nbuf = 1
    /\ pipe = NoPipe
    /\ video = NoVideo
    /\ ui = NoUi

NextLeaf ==
    \/ LevelsFromNumColorsCall
    \/ BayerMatrixCall
    \/ QuantizeNone
    \/ QuantizeLevelsCall
    \/ DitherBayer
    \/ DownscaleBlockAverageCall
    \/ ResizeNearestScaleCall

SpecLeaf == InitLeaf /\ [][NextLeaf]_vars

\* the error-diffusion engines of src/ called on their own:
\* dither_floyd(arr, L, serpentine), dither_atkinson, dither_sierra
EngineFns == {"dither_floyd", "dither_atkinson", "dither_sierra"}

EngineLevels == 1..3

EngineShapes == (1..3) \X {1, 2, 3, 5}

InitEngine ==
    /\ fn \in EngineFns
    /\ pc = fn
    /\ numba \in BOOLEAN
    /\ arg \in {[serpentine |-> b] : b \in BOOLEAN}
    /\ engine = Callee(fn, 0, arg.serpentine)
    /\ L \in EngineLevels
    /\ image_array \in {PipeImage(s[1], s[2]) : s \in EngineShapes}
    /\ m = <<>>
    /\ work = [id |-> 0, px |-> <<>>]
    /\ scan = [y |-> 0, x |-> 0]
    /\ ret = NoValue
    /\ nbuf = 1
    /\ pipe = NoPipe
    /\ video = NoVideo
    /\ ui = NoUi

NextEngine ==
    \/ DiffusionEnter
    \/ DiffusionPixel
    \/ DiffusionReturn

SpecEngine == InitEngine /\ [][NextEngine]_vars

\* every entry point
InitAll == Init \/ InitLeaf

NextAll == Next \/ NextLeaf

SpecAll == InitAll /\ [][NextAll]_vars

-----------------------------------------------------------------------------
(* The engines as functions of their arguments *)

\* the inner loop of row y run from column x to the end of the row
RECURSIVE ScanRow(_, _, _, _, _, _, _, _, _)
ScanRow(px, y, x, kernel, l, serpentine, view, H, W) ==
    CHOOSE done \in
        {IF NextScan(y, x, serpentine, W).y = y
         THEN ScanRow(stepped, y, NextScan(y, x, serpentine, W).x,
                      kernel, l, serpentine, view, H, W)
         ELSE stepped :
             stepped \in {PixelStep(px, kernel, l, y, x,
                                    DirSign(y, serpentine), view, H, W)}} : TRUE

\* both loops of an error-diffusion engine run from pixel pos to the end
RECURSIVE ScanFrom(_, _, _, _, _, _, _, _)
ScanFrom(px, pos, kernel, l, serpentine, view, H, W) ==
    IF pos.y >= H THEN px
    ELSE CHOOSE done \in
             {ScanFrom(row,
                       [y |-> pos.y + 1,
                        x |-> IF DirSign(pos.y + 1, serpentine) = 1 THEN 0 ELSE W - 1],
                       kernel, l, serpentine, view, H, W) :
                  row \in {ScanRow(px, pos.y, pos.x, kernel, l, serpentine, view, H, W)}} : TRUE

\* dither_floyd / dither_atkinson / dither_sierra / dither_burkes (arr, L, serpentine)
DitherDiffusionArray(arr, f, l, serpentine, nb, id) ==
    RoundedArray([id |-> 0,
                  px |-> ScanFrom(WorkingCopy(arr, 0).px, [y |-> 0, x |-> 0], KernelOf(f),
                                  l, serpentine, OldIsView(f, nb),
                                  Height(arr), Width(arr))],
                 Height(arr), Width(arr), id)

\* apply_dither(image_array, num_colors, method) as a function of its arguments
ApplyDitherResult(arr, num_colors, method, nb, id) ==
    IF ~IsRGBArray(arr) \/ num_colors < 2 THEN Exception("ValueError")
    ELSE LET l == LevelsFromNumColors(num_colors)
             callee == Route(Lower(method))
         IN  CASE callee.fn = "-" -> Exception("ValueError")
               [] callee.fn = "_quantize_none" -> QuantizeNoneArray(arr, l, id)
               [] callee.fn \in DiffusionFns ->
                      DitherDiffusionArray(arr, callee.fn, l, callee.serpentine, nb, id)
               [] callee.fn = "dither_bayer" -> DitherBayerArray(arr, l, callee.size, id)

-----------------------------------------------------------------------------
(* The image pipeline: main of main.py and process_frame of video_frames.py *)
(* run the same statements; fn tells which of the two is running.           *)

Stages == {"after-downscale", "after-upscale1", "after-upscale2", "after-final"}

PipeArgs(pixel, scale, dither, stage, colors, dither_scale, input_exists) ==
    [pixel |-> pixel, scale |-> scale, dither |-> dither, stage |-> stage,
     colors |-> colors, dither_scale |-> dither_scale, input_exists |-> input_exists]

\* the locals before the first statement; ops lists the calls made so far
PipeStart ==
    [img_ds |-> NoArray, img_up1 |-> NoArray, img_up2 |-> NoArray,
     img_final_pre |-> NoArray, base |-> NoArray, tmp |-> NoArray, work |-> NoArray,
     todo |-> <<>>, ops |-> <<>>, saved |-> NoArray]

Call(op, k) == [op |-> op, k |-> k]

\* StageTodo with the x2 after the dither of after-upscale1 left out
StageTodoShort(f, stage, scale) ==
    LET final == IF scale > 1 THEN <<scale>> ELSE <<>>
    IN  CASE stage = "after-downscale" -> <<2, 2>> \o final
          [] stage = "after-upscale1" -> final
          [] stage = "after-upscale2" -> final
          [] stage = "after-final" -> <<>>
          [] OTHER -> IF f = "main" THEN <<2>> \o final ELSE <<>>

\* the upscale_nearest factors the branch taken for stage applies to work
\* after the dither; the else branch of main is its after-upscale1 branch,
\* the else branch of process_frame is after-final
StageTodo(f, stage, scale) ==
    LET final == IF scale > 1 THEN <<scale>> ELSE <<>>
    IN  CASE stage = "after-downscale" -> <<2, 2>> \o final
          [] stage = "after-upscale1" -> <<2>> \o final
          [] stage = "after-upscale2" -> final
          [] stage = "after-final" -> <<>>
          [] OTHER -> IF f = "main" THEN <<2>> \o final ELSE <<>>

\* the buffer the branch taken for stage dithers
StageBase(f, stage, p) ==
    CASE stage = "after-downscale" -> p.img_ds
      [] stage = "after-upscale1" -> p.img_up1
      [] stage = "after-upscale2" -> p.img_up2
      [] stage = "after-final" -> p.img_final_pre
      [] OTHER -> IF f = "main" THEN p.img_up1 ELSE p.img_final_pre

\* d_scale != 1.0 (the else branch of main has no temporary resize)
Rescaled(f, a) ==
    a.dither_scale.num # a.dither_scale.den /\ (f = "main" => a.stage \in Stages)

\* main up to load_image: parse_args, validate_args
MainValidate ==
    /\ pc = "main"
    /\ IF arg.pixel < 1 \/ arg.scale < 1 \/ arg.colors < 2 \/ ~arg.input_exists
       THEN /\ ret' = IntValue(2)
            /\ pc' = "return"
       ELSE /\ pc' = "downscale"
            /\ UNCHANGED ret
    /\ UNCHANGED <<video, ui, pipe, fn, arg, numba, image_array, L, m, engine, work, scan, nbuf>>

\* a statement of the pipeline assigned r to field, by the call c
PipeAssign(field, r, c, next) ==
    IF IsArray(r)
    THEN /\ pipe' = [pipe EXCEPT ![field] = r, !.ops = Append(@, c)]
         /\ pc' = next
         /\ nbuf' = nbuf + 1
         /\ UNCHANGED ret
    ELSE /\ pc' = "raise"
         /\ ret' = r
         /\ UNCHANGED <<pipe, nbuf>>

\* img_ds = downscale_block_average(img, pixel) if pixel > 1 else img.copy()
PipeDownscale ==
    /\ pc = "downscale"
    /\ IF arg.pixel > 1
       THEN PipeAssign("img_ds", DownscaleBlockAverage(image_array, arg.pixel, nbuf + 1),
                       Call("downscale_block_average", arg.pixel), "upscale1")
       ELSE PipeAssign("img_ds", [image_array EXCEPT !.id = nbuf + 1],
                       Call("copy", 1), "upscale1")
    /\ UNCHANGED <<video, ui, fn, arg, numba, image_array, L, m, engine, work, scan>>

\* img_up1 = upscale_nearest(img_ds, 2)
PipeUpscale1 ==
    /\ pc = "upscale1"
    /\ PipeAssign("img_up1", UpscaleNearest(pipe.img_ds, 2, nbuf + 1),
                  Call("upscale_nearest", 2), "upscale2")
    /\ UNCHANGED <<video, ui, fn, arg, numba, image_array, L, m, engine, work, scan>>

\* img_up2 = upscale_nearest(img_up1, 2)
PipeUpscale2 ==
    /\ pc = "upscale2"
    /\ PipeAssign("img_up2", UpscaleNearest(pipe.img_up1, 2, nbuf + 1),
                  Call("upscale_nearest", 2), "final_pre")
    /\ UNCHANGED <<video, ui, fn, arg, numba, image_array, L, m, engine, work, scan>>

\* img_final_pre = upscale_nearest(img_up2, scale) if scale > 1 else img_up2
PipeFinalPre ==
    /\ pc = "final_pre"
    /\ IF arg.scale > 1
       THEN PipeAssign("img_final_pre", UpscaleNearest(pipe.img_up2, arg.scale, nbuf + 1),
                       Call("upscale_nearest", arg.scale), "stage")
       ELSE /\ pipe' = [pipe EXCEPT !.img_final_pre = pipe.img_up2]
            /\ pc' = "stage"
            /\ UNCHANGED <<ret, nbuf>>
    /\ UNCHANGED <<video, ui, fn, arg, numba, image_array, L, m, engine, work, scan>>


\* the branch on stage up to its apply_dither call: base = ..., and
\* tmp = resize_nearest_scale(base, d_scale) if d_scale != 1.0; process_frame
\* returns the stage's buffer at once when dither == "none"
PipeStage ==
    /\ pc = "stage"
    /\ IF fn = "process_frame" /\ arg.dither = StrNone
       THEN /\ pipe' = [pipe EXCEPT !.work = StageBase(fn, arg.stage, pipe)]
            /\ ret' = ArrayValue(StageBase(fn, arg.stage, pipe))
            /\ pc' = "return"
            /\ UNCHANGED nbuf
       ELSE LET base == StageBase(fn, arg.stage, pipe)
                todo == StageTodo(fn, arg.stage, arg.scale)
                r == ResizeNearestScale(base, arg.dither_scale, nbuf + 1)
            IN  IF ~Rescaled(fn, arg)
                THEN /\ pipe' = [pipe EXCEPT !.base = base, !.todo = todo]
                     /\ pc' = "dither"
                     /\ UNCHANGED <<ret, nbuf>>
                ELSE IF IsArray(r)
                THEN /\ pipe' = [pipe EXCEPT !.base = base, !.todo = todo, !.tmp = r,
                                             !.ops = Append(@, Call("resize_nearest_scale",
                                                                    arg.dither_scale))]
                     /\ pc' = "dither"
                     /\ nbuf' = nbuf + 1
                     /\ UNCHANGED ret
                ELSE /\ pipe' = [pipe EXCEPT !.base = base]
                     /\ pc' = "raise"
                     /\ ret' = r
                     /\ UNCHANGED nbuf
    /\ UNCHANGED <<video, ui, fn, arg, numba, image_array, L, m, engine, work, scan>>

\* tmp = apply_dither(tmp, ...) or work = apply_dither(base, ...)
PipeDither ==
    /\ pc = "dither"
    /\ IF Rescaled(fn, arg)
       THEN PipeAssign("tmp",
                       ApplyDitherResult(pipe.tmp, arg.colors, arg.dither, numba, nbuf + 1),
                       Call("apply_dither", 0), "resize_back")
       ELSE PipeAssign("work",
                       ApplyDitherResult(pipe.base, arg.colors, arg.dither, numba, nbuf + 1),
                       Call("apply_dither", 0), "upscales")
    /\ UNCHANGED <<video, ui, fn, arg, numba, image_array, L, m, engine, work, scan>>

\* work = resize_nearest_scale(tmp, 1.0 / d_scale)
PipeResizeBack ==
    /\ pc = "resize_back"
    /\ PipeAssign("work", ResizeNearestScale(pipe.tmp, Inverse(arg.dither_scale), nbuf + 1),
                  Call("resize_nearest_scale", Inverse(arg.dither_scale)), "upscales")
    /\ UNCHANGED <<video, ui, fn, arg, numba, image_array, L, m, engine, work, scan>>

\* work = upscale_nearest(work, 2) / upscale_nearest(work, scale): the next
\* of the upscales of the branch
PipeUpscale ==
    /\ pc = "upscales"
    /\ pipe.todo # <<>>
    /\ LET r == UpscaleNearest(pipe.work, Head(pipe.todo), nbuf + 1)
       IN  /\ pipe' = [pipe EXCEPT !.work = r, !.todo = Tail(@),
                                   !.ops = Append(@, Call("upscale_nearest", Head(pipe.todo)))]
           /\ nbuf' = nbuf + 1
    /\ UNCHANGED <<video, ui, pc, ret, fn, arg, numba, image_array, L, m, engine, work, scan>>

\* main: save_image(work, output); return 0.  process_frame: return work
PipeFinish ==
    /\ pc = "upscales"
    /\ pipe.todo = <<>>
    /\ IF fn = "main"
       THEN /\ pipe' = [pipe EXCEPT !.saved = pipe.work]
            /\ ret' = IntValue(0)
       ELSE /\ ret' = ArrayValue(pipe.work)
            /\ UNCHANGED pipe
    /\ pc' = "return"
    /\ UNCHANGED <<video, ui, fn, arg, numba, image_array, L, m, engine, work, scan, nbuf>>

Unscaled == Scale(1, 1)

DitherScales == {Scale(1, 4), Scale(1, 2), Scale(3, 4), Scale(3, 2), Scale(2, 1), Scale(4, 1)}

\* main(argv) on an image file, process_frame(arr, ...) on a frame
InitPipe ==
    /\ fn \in {"main", "process_frame"}
    /\ pc = IF fn = "main" THEN "main" ELSE "downscale"
    /\ numba \in BOOLEAN
    /\ \/ /\ image_array = GrayRamp
          /\ arg \in {PipeArgs(2, scale, dither, stage, 8, Unscaled, TRUE) :
                         scale \in {1, 2}, dither \in RecognisedMethods, stage \in Stages}
       \/ /\ image_array = GrayRamp
          /\ arg \in {PipeArgs(1, scale, dither, stage, 8, Unscaled, TRUE) :
                         scale \in {1, 2}, dither \in {StrNone, StrBayer2, StrBayer4, StrBayer8},
                         stage \in Stages}
       \/ /\ image_array \in {PipeImage(s[1], s[2]) : s \in (1..3) \X (1..3)}
          /\ arg \in {PipeArgs(1, 1, dither, "after-downscale", 8, ds, TRUE) :
                         dither \in {StrNone, StrBayer2}, ds \in DitherScales}
       \/ /\ image_array = GrayRamp
          /\ arg \in {PipeArgs(1, 1, StrFloyd, stage, 8, ds, TRUE) :
                         stage \in {"after-downscale", "after-upscale1"},
                         ds \in {Scale(1, 2), Scale(2, 1)}}
       \/ /\ image_array = PipeImage(1, 1)
          /\ arg = PipeArgs(2, 1, StrNone, "after-final", 8, Unscaled, TRUE)
       \/ /\ fn = "main"
          /\ image_array = GrayRamp
          /\ arg \in {PipeArgs(0, 1, StrNone, "after-final", 8, Unscaled, TRUE),
                      PipeArgs(1, 0, StrNone, "after-final", 8, Unscaled, TRUE),
                      PipeArgs(1, 1, StrNone, "after-final", 1, Unscaled, TRUE),
                      PipeArgs(1, 1, StrNone, "after-final", 8, Unscaled, FALSE)}
    /\ L = 0
    /\ m = <<>>
    /\ engine = Callee("-", 0, FALSE)
    /\ work = [id |-> 0, px |-> <<>>]
    /\ scan = [y |-> 0, x |-> 0]
    /\ ret = NoValue
    /\ nbuf = 1
    /\ pipe = PipeStart
    /\ video = NoVideo
    /\ ui = NoUi

NextPipe ==
    \/ MainValidate
    \/ PipeDownscale
    \/ PipeUpscale1
    \/ PipeUpscale2
    \/ PipeFinalPre
    \/ PipeStage
    \/ PipeDither
    \/ PipeResizeBack
    \/ PipeUpscale
    \/ PipeFinish

SpecPipe == InitPipe /\ [][NextPipe]_vars

\* arr upscaled by 2, k times over
Doubled(arr, k) ==
    IF k = 0 THEN arr
    ELSE IF k = 1 THEN UpscaleNearest(arr, 2, 0)
    ELSE UpscaleNearest(UpscaleNearest(arr, 2, 0), 2, 0)

\* the number of x2 steps in front of the dither, by stage
DoublingsBefore(stage) ==
    CASE stage = "after-downscale" -> 0
      [] stage = "after-upscale1" -> 1
      [] stage = "after-upscale2" -> 2
      [] stage = "after-final" -> 2

\* the image main saves for img and the arguments a, as a function of them
MainResult(img, a, nb) ==
    LET img_ds == IF a.pixel > 1 THEN DownscaleBlockAverage(img, a.pixel, 0) ELSE img
        k == DoublingsBefore(a.stage)
        last == a.stage = "after-final"
        doubled == Doubled(img_ds, k)
        base == IF last /\ a.scale > 1 THEN UpscaleNearest(doubled, a.scale, 0) ELSE doubled
        rescaled == a.dither_scale # Unscaled
        tmp == IF rescaled THEN ResizeNearestScale(base, a.dither_scale, 0) ELSE base
        dithered == ApplyDitherResult(tmp, a.colors, a.dither, nb, 0)
        back == IF rescaled THEN ResizeNearestScale(dithered, Inverse(a.dither_scale), 0)
                ELSE dithered
        redoubled == Doubled(back, 2 - k)
    IN  IF ~last /\ a.scale > 1 THEN UpscaleNearest(redoubled, a.scale, 0) ELSE redoubled

-----------------------------------------------------------------------------
(* The streaming video processor: _process_frame_rgb of video_to_video.py  *)

StreamStages == {"before-upscale", "after-upscale", "after-upscale2"}

StreamArgs(pixel, colors, dither, dither_stage, dither_scale, final_scale) ==
    [pixel |-> pixel, colors |-> colors, dither |-> dither, dither_stage |-> dither_stage,
     dither_scale |-> dither_scale, final_scale |-> final_scale]

\* the locals base, up1, out before the first statement, and the calls made
StreamStart == [base |-> NoArray, up1 |-> NoArray, out |-> NoArray, ops |-> <<>>]

\* a helper returned r to the statement assigning field, or raised
StreamAssign(field, r, calls, next) ==
    IF IsArray(r)
    THEN /\ pipe' = [pipe EXCEPT ![field] = r, !.ops = @ \o calls]
         /\ pc' = next
         /\ nbuf' = nbuf + Len(calls)
         /\ UNCHANGED ret
    ELSE /\ pc' = "raise"
         /\ ret' = r
         /\ UNCHANGED <<pipe, nbuf>>

\* base = downscale_block_average(rgb, args.pixel)
StreamDownscale ==
    /\ pc = "_process_frame_rgb"
    /\ StreamAssign("base", DownscaleBlockAverage(image_array, arg.pixel, nbuf + 1),
                    <<Call("downscale_block_average", arg.pixel)>>, "stream_upscale1")
    /\ UNCHANGED <<video, ui, fn, arg, numba, image_array, L, m, engine, work, scan>>

\* up1 = upscale_nearest(base, 2)
StreamUpscale1 ==
    /\ pc = "stream_upscale1"
    /\ StreamAssign("up1", UpscaleNearest(pipe.base, 2, nbuf + 1),
                    <<Call("upscale_nearest", 2)>>, "stream_stage")
    /\ UNCHANGED <<video, ui, fn, arg, numba, image_array, L, m, engine, work, scan>>

\* maybe_dither(arr): apply_dither, between resize_nearest_scale(arr, dither_scale)
\* and resize_nearest_scale(dit, 1 / dither_scale) when dither_scale > 1
MaybeDither(arr, a, nb, id) ==
    IF a.dither_scale > 1
    THEN LET tmp == ResizeNearestScale(arr, Scale(a.dither_scale, 1), 0)
             dit == IF IsArray(tmp) THEN ApplyDitherResult(tmp, a.colors, a.dither, nb, 0)
                    ELSE tmp
         IN  IF IsArray(dit) THEN ResizeNearestScale(dit, Scale(1, a.dither_scale), id)
             ELSE dit
    ELSE ApplyDitherResult(arr, a.colors, a.dither, nb, id)

\* the calls of maybe_dither
MaybeDitherCalls(a) ==
    IF a.dither_scale > 1
    THEN <<Call("resize_nearest_scale", Scale(a.dither_scale, 1)), Call("apply_dither", 0),
           Call("resize_nearest_scale", Scale(1, a.dither_scale))>>
    ELSE <<Call("apply_dither", 0)>>

\* the branch on args.dither_stage
StreamStage ==
    /\ pc = "stream_stage"
    /\ CASE arg.dither_stage = "before-upscale" ->
                LET d1 == MaybeDither(pipe.base, arg, numba, 0)
                IN  StreamAssign("up1",
                                 IF IsArray(d1) THEN UpscaleNearest(d1, 2, nbuf + 1) ELSE d1,
                                 MaybeDitherCalls(arg) \o <<Call("upscale_nearest", 2)>>,
                                 "stream_final")
         [] arg.dither_stage = "after-upscale2" ->
                StreamAssign("up1",
                             MaybeDither(UpscaleNearest(pipe.up1, 2, 0), arg, numba, nbuf + 1),
                             <<Call("upscale_nearest", 2)>> \o MaybeDitherCalls(arg),
                             "stream_final")
         [] OTHER ->
                StreamAssign("up1", MaybeDither(pipe.up1, arg, numba, nbuf + 1),
                             MaybeDitherCalls(arg), "stream_final")
    /\ UNCHANGED <<video, ui, fn, arg, numba, image_array, L, m, engine, work, scan>>

\* out = resize_nearest_scale(up1, args.final_scale) if final_scale is neither
\* 0 nor 1, else up1; return out
StreamFinal ==
    /\ pc = "stream_final"
    /\ LET r == IF arg.final_scale # 0 /\ arg.final_scale # 1
                THEN ResizeNearestScale(pipe.up1, Scale(arg.final_scale, 1), nbuf + 1)
                ELSE pipe.up1
       IN  IF IsArray(r)
           THEN /\ pipe' = [pipe EXCEPT !.out = r,
                                        !.ops = IF r = pipe.up1 THEN @
                                                ELSE Append(@, Call("resize_nearest_scale",
                                                                    Scale(arg.final_scale, 1)))]
                /\ ret' = ArrayValue(r)
                /\ pc' = "return"
           ELSE /\ ret' = r
                /\ pc' = "raise"
                /\ UNCHANGED pipe
    /\ UNCHANGED <<video, ui, fn, arg, numba, image_array, L, m, engine, work, scan, nbuf>>

StreamDitherScales == {1, 2}

StreamFinalScales == 0..3

\* _process_frame_rgb(rgb, args) on a decoded frame
InitStream ==
    /\ fn = "_process_frame_rgb"
    /\ pc = fn
    /\ numba \in BOOLEAN
    /\ \/ /\ image_array \in {PipeImage(s[1], s[2]) : s \in (1..3) \X (1..3)}
          /\ arg \in {StreamArgs(pixel, 8, dither, stage, ds, fs) :
                         pixel \in {1, 2}, dither \in {StrNone, StrBayer2},
                         stage \in StreamStages, ds \in StreamDitherScales,
                         fs \in StreamFinalScales}
       \/ /\ image_array = GrayRamp
          /\ arg \in {StreamArgs(2, 8, dither, stage, ds, fs) :
                         dither \in {StrFloyd, StrSierra},
                         stage \in StreamStages, ds \in StreamDitherScales,
                         fs \in StreamFinalScales}
    /\ L = 0
    /\ m = <<>>
    /\ engine = Callee("-", 0, FALSE)
    /\ work = [id |-> 0, px |-> <<>>]
    /\ scan = [y |-> 0, x |-> 0]
    /\ ret = NoValue
    /\ nbuf = 1
    /\ pipe = StreamStart
    /\ video = NoVideo
    /\ ui = NoUi

NextStream ==
    \/ StreamDownscale
    \/ StreamUpscale1
    \/ StreamStage
    \/ StreamFinal

SpecStream == InitStream /\ [][NextStream]_vars

-----------------------------------------------------------------------------
(* The frame-batch video processor: main of video_frames.py                *)

\* the number of frames of the longest video
MaxFrames == 4

\* --end: None when absent
NoEnd == [none |-> TRUE, val |-> 0]
EndAt(n) == [none |-> FALSE, val |-> n]

VideoArgs(start, end, pixel, dither, stage, opens) ==
    [start |-> start, end |-> end, pixel |-> pixel, dither |-> dither, stage |-> stage,
     opens |-> opens]

\* frame i of a video: a 1 x 1 image that tells the frames apart
FrameImage(i) ==
    Image(1, 1, 1, [y \in 0..0 |-> [x \in 0..0 |-> Color(60 * i, 255 - 60 * i, 128)]])

\* process_frame(arr, ...) as a function of its arguments
ProcessFrameResult(img, a, nb) ==
    IF a.dither = StrNone
    THEN LET img_ds == IF a.pixel > 1 THEN DownscaleBlockAverage(img, a.pixel, 0) ELSE img
             k == DoublingsBefore(a.stage)
             doubled == Doubled(img_ds, k)
         IN  IF ~IsArray(img_ds) THEN img_ds
             ELSE IF a.stage = "after-final" /\ a.scale > 1
             THEN UpscaleNearest(doubled, a.scale, 0)
             ELSE doubled
    ELSE IF a.pixel > 1 /\ ~IsArray(DownscaleBlockAverage(img, a.pixel, 0))
    THEN DownscaleBlockAverage(img, a.pixel, 0)
    ELSE MainResult(img, a, nb)

\* the arguments main passes to process_frame
FrameArgs(a) ==
    PipeArgs(Max(1, a.pixel), 1, a.dither, a.stage, 256, Unscaled, TRUE)

\* the locals before the loop, the frames of the capture, the number of
\* cap.read() calls that returned a frame, the files of outdir by frame index,
\* the indices in the order their files were saved, and the printed count
VideoStart(n) ==
    [frames |-> [i \in 0..(n - 1) |-> FrameImage(i)], n |-> n, reads |-> 0,
     idx |-> 0, written |-> 0, files |-> <<>>, order |-> <<>>, printed |-> -1]

\* PastEnd with the end index inclusive
PastEndInclusive(idx, end) == ~end.none /\ idx > end.val

\* end is not None and idx >= end
PastEnd(idx, end) == ~end.none /\ idx >= end.val

\* main up to the loop: the capture fails to open, or idx = 0, written = 0
VideoOpen ==
    /\ pc = "video_main"
    /\ IF ~arg.opens
       THEN /\ ret' = IntValue(2)
            /\ pc' = "return"
       ELSE /\ pc' = "video_loop"
            /\ UNCHANGED ret
    /\ UNCHANGED <<video, ui, pipe, fn, arg, numba, image_array, L, m, engine, work, scan, nbuf>>

\* one iteration of while True: cap.read(), and the body up to its continue,
\* its break or its end
VideoIteration ==
    /\ pc = "video_loop"
    /\ IF video.reads >= video.n
       THEN /\ pc' = "video_release"
            /\ UNCHANGED <<video, ret>>
       ELSE IF video.idx < arg.start
       THEN /\ video' = [video EXCEPT !.reads = @ + 1, !.idx = @ + 1]
            /\ UNCHANGED <<pc, ret>>
       ELSE IF PastEnd(video.idx, arg.end)
       THEN /\ video' = [video EXCEPT !.reads = @ + 1]
            /\ pc' = "video_release"
            /\ UNCHANGED ret
       ELSE LET out == ProcessFrameResult(video.frames[video.reads], FrameArgs(arg), numba)
            IN  IF IsArray(out)
                THEN /\ video' = [video EXCEPT !.reads = @ + 1,
                                               !.files = (video.idx :> out) @@ @,
                                               !.order = Append(@, video.idx),
                                               !.written = @ + 1,
                                               !.idx = @ + 1]
                     /\ UNCHANGED <<pc, ret>>
                ELSE /\ video' = [video EXCEPT !.reads = @ + 1]
                     /\ pc' = "raise"
                     /\ ret' = out
    /\ UNCHANGED <<ui, pipe, fn, arg, numba, image_array, L, m, engine, work, scan, nbuf>>

\* cap.release(); print(f"Wrote {written} frames to {outdir}"); return 0
VideoFinish ==
    /\ pc = "video_release"
    /\ video' = [video EXCEPT !.printed = video.written]
    /\ ret' = IntValue(0)
    /\ pc' = "return"
    /\ UNCHANGED <<ui, pipe, fn, arg, numba, image_array, L, m, engine, work, scan, nbuf>>

\* main(argv) of video_frames.py on a video of 0..MaxFrames frames
InitVideo ==
    /\ fn = "video_main"
    /\ pc = fn
    /\ numba \in BOOLEAN
    /\ \/ arg \in {VideoArgs(start, end, 1, dither, "after-upscale1", TRUE) :
                      start \in -1..(MaxFrames + 1),
                      end \in {NoEnd} \cup {EndAt(e) : e \in -1..(MaxFrames + 1)},
                      dither \in {StrNone, StrBayer2}}
       \/ arg \in {VideoArgs(1, NoEnd, pixel, StrFloyd, "after-downscale", opens) :
                      pixel \in {0, 2}, opens \in BOOLEAN}
    /\ video \in {VideoStart(n) : n \in 0..MaxFrames}
    /\ image_array = NoArray
    /\ L = 0
    /\ m = <<>>
    /\ engine = Callee("-", 0, FALSE)
    /\ work = [id |-> 0, px |-> <<>>]
    /\ scan = [y |-> 0, x |-> 0]
    /\ ret = NoValue
    /\ nbuf = 1
    /\ pipe = NoPipe
    /\ ui = NoUi

NextVideo ==
    \/ VideoOpen
    \/ VideoIteration
    \/ VideoFinish

SpecVideo == InitVideo /\ [][NextVideo]_vars

-----------------------------------------------------------------------------
(* The Tk application of ui.py: the debounce timer of _trigger_update, the  *)
(* preview worker threads and the callbacks they post to the event loop.    *)
(* Handlers run one at a time on the Tk thread; _start_worker blocks it in  *)
(* worker.join(timeout=0.1).  Time is counted in milliseconds.              *)

\* UIState.debounce_ms
debounce_ms == 150

\* the timeout of worker.join(timeout=0.1)
join_timeout_ms == 100

\* the last instant of a run, and the number of parameter changes of a run
MaxTime == 500

MaxChanges == 3

\* the amounts by which time passes between two steps
TickSteps == {50, 100}

\* a timer of root.after(ms, callback)
Timer(id, due) == [id |-> id, due |-> due]

\* a preview thread: at compute it runs _run_pipeline, at check it reads
\* cancel_flag; superseded tells that _start_worker found it alive
Worker(st) == [st |-> st, superseded |-> FALSE]

\* a callback of root.after(0, ...) posted by worker w: kind image or error
Posted(w, kind) == [w |-> w, kind |-> kind]

\* the application after __init__; changes counts the parameter changes,
\* last_change is the instant of the last one and since_change the number
\* of _start_worker calls after it
UiStart(loaded) ==
    [now |-> 0, loaded |-> loaded, pending |-> 0, timers |-> {}, next_timer |-> 1,
     changes |-> 0, last_change |-> 0, since_change |-> 0, workers |-> <<>>, worker |-> 0,
     cancel_flag |-> FALSE, tk |-> "idle", join_from |-> 0, queue |-> <<>>,
     canvas |-> Posted(0, "none")]

\* root.after_cancel(id) leaving the timer scheduled
AfterCancelNothing(timers, id) == timers

\* root.after_cancel(id)
AfterCancel(timers, id) == {t \in timers : t.id # id}

UiUnchanged ==
    UNCHANGED <<pc, fn, arg, numba, image_array, L, m, engine, work, scan, ret, nbuf, pipe,
                video>>

\* time passes
UiTick ==
    /\ pc = "mainloop"
    /\ \E d \in TickSteps :
           /\ ui.now + d <= MaxTime
           /\ ui' = [ui EXCEPT !.now = @ + d]
    /\ UiUnchanged

\* on_params_changed: _trigger_update cancels the pending timer, if any, and
\* schedules _start_worker debounce_ms from now
UiParamsChanged ==
    /\ pc = "mainloop"
    /\ ui.tk = "idle"
    /\ ui.changes < MaxChanges
    /\ ui.now + debounce_ms <= MaxTime
    /\ ui' = [ui EXCEPT !.timers = (IF ui.pending # 0 THEN AfterCancel(@, ui.pending) ELSE @)
                                       \cup {Timer(ui.next_timer, ui.now + debounce_ms)},
                        !.pending = ui.next_timer,
                        !.next_timer = @ + 1,
                        !.changes = @ + 1,
                        !.last_change = ui.now,
                        !.since_change = 0]
    /\ UiUnchanged

WorkerAlive(u) == u.worker # 0 /\ u.workers[u.worker].st # "done"

\* the new thread of _start_worker: cancel_flag = False, worker = Thread(...), start()
WithNewWorker(u) ==
    [u EXCEPT !.cancel_flag = FALSE,
              !.workers = Append(@, Worker("compute")),
              !.worker = Len(u.workers) + 1,
              !.tk = "idle"]

\* a due timer runs _start_worker, up to worker.join(timeout=0.1) when the
\* earlier worker is alive, else to its end
UiStartWorker ==
    /\ pc = "mainloop"
    /\ ui.tk = "idle"
    /\ \E t \in ui.timers :
           /\ t.due <= ui.now
           /\ LET fired == [ui EXCEPT !.timers = @ \ {t},
                                      !.pending = 0,
                                      !.since_change = @ + 1]
              IN  IF WorkerAlive(ui)
                  THEN ui' = [fired EXCEPT !.cancel_flag = TRUE,
                                           !.workers[ui.worker].superseded = TRUE,
                                           !.tk = "joining",
                                           !.join_from = ui.now]
                  ELSE ui' = WithNewWorker(fired)
    /\ UiUnchanged

\* join returns, the worker having ended or the timeout having passed; the
\* rest of _start_worker
UiJoinReturns ==
    /\ pc = "mainloop"
    /\ ui.tk = "joining"
    /\ ~WorkerAlive(ui) \/ ui.now >= ui.join_from + join_timeout_ms
    /\ ui' = WithNewWorker(ui)
    /\ UiUnchanged

\* _compute_preview of thread w up to the test of cancel_flag: no source
\* image, _run_pipeline raised (the error callback is posted), or out is there
UiWorkerCompute ==
    /\ pc = "mainloop"
    /\ \E w \in DOMAIN ui.workers :
           /\ ui.workers[w].st = "compute"
           /\ \/ /\ ~ui.loaded
                 /\ ui' = [ui EXCEPT !.workers[w].st = "done"]
              \/ /\ ui.loaded
                 /\ ui' = [ui EXCEPT !.workers[w].st = "check"]
              \/ /\ ui.loaded
                 /\ ui' = [ui EXCEPT !.workers[w].st = "done",
                                     !.queue = Append(@, Posted(w, "error"))]
    /\ UiUnchanged

\* if self.state.cancel_flag: return; else root.after(0, _update_canvas)
UiWorkerCheck ==
    /\ pc = "mainloop"
    /\ \E w \in DOMAIN ui.workers :
           /\ ui.workers[w].st = "check"
           /\ ui' = [ui EXCEPT !.workers[w].st = "done",
                               !.queue = IF ui.cancel_flag THEN @
                                         ELSE Append(@, Posted(w, "image"))]
    /\ UiUnchanged

\* the event loop runs the next posted callback: _update_canvas or _show_error
UiUpdateCanvas ==
    /\ pc = "mainloop"
    /\ ui.tk = "idle"
    /\ ui.queue # <<>>
    /\ ui' = [ui EXCEPT !.canvas = Head(ui.queue), !.queue = Tail(@)]
    /\ UiUnchanged

\* root.mainloop() of an application with or without an opened image
InitUi ==
    /\ fn = "mainloop"
    /\ pc = fn
    /\ numba \in BOOLEAN
    /\ ui \in {UiStart(loaded) : loaded \in BOOLEAN}
    /\ arg = [nothing |-> 0]
    /\ image_array = NoArray
    /\ L = 0
    /\ m = <<>>
    /\ engine = Callee("-", 0, FALSE)
    /\ work = [id |-> 0, px |-> <<>>]
    /\ scan = [y |-> 0, x |-> 0]
    /\ ret = NoValue
    /\ nbuf = 1
    /\ pipe = NoPipe
    /\ video = NoVideo

NextUi ==
    \/ UiTick
    \/ UiParamsChanged
    \/ UiStartWorker
    \/ UiJoinReturns
    \/ UiWorkerCompute
    \/ UiWorkerCheck
    \/ UiUpdateCanvas

SpecUi == InitUi /\ [][NextUi]_vars

\* mainloop runs every due timer and posted callback, join returns, the
\* threads are scheduled and time passes; the user need not act
SpecUiFair ==
    /\ SpecUi
    /\ WF_vars(UiTick)
    /\ WF_vars(UiStartWorker)
    /\ WF_vars(UiJoinReturns)
    /\ WF_vars(UiWorkerCompute)
    /\ WF_vars(UiWorkerCheck)
    /\ WF_vars(UiUpdateCanvas)

-----------------------------------------------------------------------------
(* Vocabulary of the properties *)

\* the samples of a returned H x W x 3 array
SamplesOf(a) ==
    {a.px[y][x][c] : y \in 0..(Height(a) - 1), x \in 0..(Width(a) - 1), c \in Channels}

\* the integer nearest to p / q (q > 0), the even one of two equally near
NearestEven(p, q) ==
    CHOOSE z \in -1..(p \div q + 1) :
        \/ 2 * (p - z * q) < q /\ 2 * (z * q - p) < q
        \/ 2 * (p - z * q) = q /\ z % 2 = 0
        \/ 2 * (z * q - p) = q /\ z % 2 = 0

\* the integer nearest to p / q (p >= 0, q > 0), the larger of two equally near
NearestAway(p, q) == (2 * p + q) \div (2 * q)

\* the L output levels of a channel, ties rounded as the quantizer rounds them
AllowedLevels(l) == {NearestEven(k * 255, l - 1) : k \in 0..(l - 1)}

\* a and b are the same name up to the casing of letters
SameIgnoringCase(a, b) ==
    /\ Len(a) = Len(b)
    /\ \A k \in 1..Len(a) :
          \/ a[k] = b[k]
          \/ \E j \in 1..26 : {a[k], b[k]} = {UpperLetters[j], LowerLetters[j]}

Recognised(method) == \E name \in RecognisedMethods : SameIgnoringCase(method, name)

Finished == pc \in {"return", "raise"}

-----------------------------------------------------------------------------
(* Properties *)

ApplyDitherReturned == fn = "apply_dither" /\ pc = "return"

\* C1: for the methods none, floyd, atkinson, sierra, bayer2, bayer4, bayer8,
\* every H x W x 3 image and every num_colors >= 2, apply_dither does not fail
\* and returns a uint8 array of the input's shape whose samples are all among
\* the L levels round(k * 255 / (L - 1)), L the level count of num_colors.
C1_OutputInPalette ==
    (/\ fn = "apply_dither"
     /\ IsRGBArray(image_array)
     /\ arg.num_colors >= 2
     /\ arg.method \in RecognisedMethods \ {StrBurkes})
    => /\ pc # "raise"
       /\ pc = "return" =>
             /\ ret.kind = "array"
             /\ ret.val.isarray
             /\ ret.val.dtype = "uint8"
             /\ ret.val.shape = image_array.shape
             /\ DOMAIN ret.val.px = 0..(Height(image_array) - 1)
             /\ \A y \in DOMAIN ret.val.px :
                   /\ DOMAIN ret.val.px[y] = 0..(Width(image_array) - 1)
                   /\ \A x \in DOMAIN ret.val.px[y] : DOMAIN ret.val.px[y][x] = Channels
             /\ SamplesOf(ret.val) \subseteq AllowedLevels(LevelsFromNumColors(arg.num_colors))

\* a Floyd-Steinberg call on a 2 x 2 image returned something other than the
\* plain quantization of its input
C1_Witness ==
    /\ ApplyDitherReturned
    /\ arg.method = StrFloyd
    /\ image_array.shape = <<2, 2, 3>>
    /\ ret.val.px # QuantizeNoneArray(image_array, L, 0).px
    /\ SamplesOf(ret.val) \subseteq AllowedLevels(L)

\* C2: for num_colors >= 2, _levels_from_num_colors returns the L >= 2 with
\* L^3 <= num_colors < (L + 1)^3, and exactly 2 when num_colors < 8.
C2_LevelsLargestCube ==
    (fn = "_levels_from_num_colors" /\ Finished /\ arg.num_colors >= 2)
    => /\ pc = "return"
       /\ ret.kind = "int"
       /\ ret.val >= 2
       /\ arg.num_colors < 8 => ret.val = 2
       /\ arg.num_colors >= 8 =>
             /\ ret.val * ret.val * ret.val <= arg.num_colors
             /\ arg.num_colors < (ret.val + 1) * (ret.val + 1) * (ret.val + 1)

\* the estimate round(26 ^ (1/3)) = 3 was decremented to 2
C2_Witness ==
    /\ fn = "_levels_from_num_colors"
    /\ pc = "return"
    /\ arg.num_colors = 26
    /\ CubeRootRound(arg.num_colors) = 3
    /\ ret.val = 2

\* C3: apply_dither ends by raising ValueError, returning no image, when the
\* method is not a recognised name, when the image is not a rank-3 array with
\* 3 channels, or when num_colors < 2; so does _levels_from_num_colors when
\* num_colors < 2.
C3_InvalidArgumentsRaise ==
    /\ (/\ fn = "apply_dither"
        /\ pc # "apply_dither"
        /\ \/ ~Recognised(arg.method)
           \/ ~(image_array.isarray /\ Len(image_array.shape) = 3 /\ image_array.shape[3] = 3)
           \/ arg.num_colors < 2)
       => (pc = "raise" /\ ret = Exception("ValueError"))
    /\ (/\ fn = "_levels_from_num_colors"
        /\ pc # "_levels_from_num_colors"
        /\ arg.num_colors < 2)
       => (pc = "raise" /\ ret = Exception("ValueError"))

\* a well-formed image and a valid num_colors, refused for the name "bayer"
C3_Witness ==
    /\ fn = "apply_dither"
    /\ pc = "raise"
    /\ ret = Exception("ValueError")
    /\ IsRGBArray(image_array)
    /\ arg.num_colors >= 2
    /\ arg.method = <<"b", "a", "y", "e", "r">>

\* the engine and matrix size the dispatcher is to select for a recognised name
SelectedResult(name, arr, l, nb) ==
    CASE name = StrNone -> QuantizeNoneArray(arr, l, 0).px
      [] name = StrFloyd -> DitherDiffusionArray(arr, "dither_floyd", l, TRUE, nb, 0).px
      [] name = StrAtkinson -> DitherDiffusionArray(arr, "dither_atkinson", l, TRUE, nb, 0).px
      [] name = StrBurkes -> DitherDiffusionArray(arr, "dither_burkes", l, TRUE, nb, 0).px
      [] name = StrSierra -> DitherDiffusionArray(arr, "dither_sierra", l, TRUE, nb, 0).px
      [] name = StrBayer2 -> DitherBayerArray(arr, l, 2, 0).px
      [] name = StrBayer4 -> DitherBayerArray(arr, l, 4, 0).px
      [] name = StrBayer8 -> DitherBayerArray(arr, l, 8, 0).px

\* C4: for any letter-casing of a recognised name (valid image and
\* num_colors), apply_dither returns what the engine named by the lower-cased
\* name returns when called with the one L computed from num_colors.
C4_CaseInsensitiveRouting ==
    \A name \in RecognisedMethods :
        (/\ fn = "apply_dither"
         /\ Finished
         /\ IsRGBArray(image_array)
         /\ arg.num_colors >= 2
         /\ SameIgnoringCase(arg.method, name))
        => /\ pc = "return"
           /\ L = LevelsFromNumColors(arg.num_colors)
           /\ ret.val.px = SelectedResult(name, image_array, L, numba)

\* "FLOYD" was served by the Floyd-Steinberg engine
C4_Witness ==
    /\ ApplyDitherReturned
    /\ arg.method = <<"F", "L", "O", "Y", "D">>
    /\ numba
    /\ engine.fn = "dither_floyd"
    /\ ret.val.px # QuantizeNoneArray(image_array, L, 0).px

\* C5: no step of an apply_dither call, successful or failing, changes a
\* sample of the input array, and a returned array is never the input's buffer.
C5_InputUntouched ==
    [][fn = "apply_dither" =>
          /\ image_array' = image_array
          /\ (pc' = "return" => ret'.val.id # image_array.id)]_vars

\* an error-diffusion call returned an image differing from its input
C5_Witness ==
    /\ ApplyDitherReturned
    /\ engine.fn \in DiffusionFns
    /\ ret.val.px # image_array.px
    /\ ret.val.id # image_array.id
    /\ work.id # image_array.id

QuantizerReturned(f) == fn = f /\ pc = "return" /\ L >= 2

\* the sample handed to a quantizer called on its own, and the sample it returned
SampleIn ==
    IF fn = "_quantize_none" THEN image_array.px[0][0][0] ELSE arg.pixel[0].i

SampleOut ==
    IF fn = "_quantize_none" THEN ret.val.px[0][0][0] ELSE ret.val[0]

\* C6 as stated: for every sample s in 0..255 and L >= 2 both quantizers
\* return clamp(round(level * 255 / (L - 1)), 0, 255), level =
\* clamp(round(s * (L - 1) / 255), 0, L - 1), rounding halves away from zero.
C6_Original_HalfAwayFromZero ==
    (QuantizerReturned("_quantize_none") \/ QuantizerReturned("_quantize_levels"))
    => SampleOut =
          Clip(NearestAway(Clip(NearestAway(SampleIn * (L - 1), 255), 0, L - 1) * 255, L - 1),
               0, 255)

\* C6 (amended): the same formula with both roundings to the nearest integer,
\* halves to the even neighbour (np.rint).
C6_HalfToEven ==
    (QuantizerReturned("_quantize_none") \/ QuantizerReturned("_quantize_levels"))
    => SampleOut =
          Clip(NearestEven(Clip(NearestEven(SampleIn * (L - 1), 255), 0, L - 1) * 255, L - 1),
               0, 255)

\* L = 7, sample 43: level 1 is 42.5, returned as 42
C6_Witness ==
    /\ QuantizerReturned("_quantize_none")
    /\ L = 7
    /\ SampleIn = 43
    /\ SampleOut = 42

\* C7: quantizing a returned sample again with the same L >= 2 gives the same
\* sample, and the samples 0 and 255 are returned unchanged.
C7_Idempotent ==
    QuantizerReturned("_quantize_none")
    => /\ \A y \in DOMAIN ret.val.px : \A x \in DOMAIN ret.val.px[y] : \A c \in Channels :
             QuantizeNoneArray(ret.val, L, 0).px[y][x][c] = ret.val.px[y][x][c]
       /\ SampleIn \in {0, 255} => SampleOut = SampleIn

\* sample 100 with L = 3 moved to 128 and stays there
C7_Witness ==
    /\ QuantizerReturned("_quantize_none")
    /\ L = 3
    /\ SampleIn = 100
    /\ SampleOut = 128
    /\ QuantizeNoneArray(ret.val, L, 0).px = ret.val.px

\* C8: _quantize_none called with L <= 1 returns 0 in every channel of every
\* pixel.
C8_DegenerateLevelsZero ==
    (fn = "_quantize_none" /\ Finished /\ L <= 1)
    => /\ pc = "return"
       /\ ret.val.shape = image_array.shape
       /\ SamplesOf(ret.val) = {0}

\* a white pixel was returned black for L = 1
C8_Witness ==
    /\ fn = "_quantize_none"
    /\ pc = "return"
    /\ L = 1
    /\ SampleIn = 255
    /\ SamplesOf(ret.val) = {0}

\* C9: for n in {2, 4, 8}, _bayer_matrix(n) returns an n x n matrix holding
\* each integer of 0..n*n-1 exactly once, whose quadrants are 4P+0 (top left),
\* 4P+2 (top right), 4P+3 (bottom left), 4P+1 (bottom right) of the matrix P
\* returned for n/2; the matrix for 1 is [[0]].
C9_BayerMatrix ==
    (fn = "_bayer_matrix" /\ Finished /\ arg.n \in {2, 4, 8})
    => /\ pc = "return"
       /\ DOMAIN ret.val = 0..(arg.n - 1)
       /\ \A i \in 0..(arg.n - 1) : DOMAIN ret.val[i] = 0..(arg.n - 1)
       /\ \A v \in 0..(arg.n * arg.n - 1) :
             Cardinality({p \in (0..(arg.n - 1)) \X (0..(arg.n - 1)) :
                             ret.val[p[1]][p[2]] = v}) = 1
       /\ LET k == arg.n \div 2
              P == bayer_matrix(k).val
          IN  /\ k = 1 => P = [i \in {0} |-> [j \in {0} |-> 0]]
              /\ \A i \in 0..(k - 1) : \A j \in 0..(k - 1) :
                    /\ ret.val[i][j] = 4 * P[i][j]
                    /\ ret.val[i][j + k] = 4 * P[i][j] + 2
                    /\ ret.val[i + k][j] = 4 * P[i][j] + 3
                    /\ ret.val[i + k][j + k] = 4 * P[i][j] + 1

\* the 8 x 8 matrix was returned, 63 in it
C9_Witness ==
    /\ fn = "_bayer_matrix"
    /\ pc = "return"
    /\ arg.n = 8
    /\ \E i \in 0..7 : \E j \in 0..7 : ret.val[i][j] = 63

\* n is a positive power of two
IsPowerOfTwo(n) == n >= 1 /\ \E e \in 0..n : 2 ^ e = n

\* C10 as stated: _bayer_matrix fails with ValueError, producing no matrix,
\* for every n other than 2, 4 and 8.
C10_Original_OnlyTwoFourEight ==
    (fn = "_bayer_matrix" /\ Finished /\ arg.n \notin {2, 4, 8})
    => (pc = "raise" /\ ret = Exception("ValueError"))

\* C10 (amended): _bayer_matrix fails with ValueError, producing no matrix,
\* exactly for the n that are not positive powers of two (n <= 0, 3, 5, 6, ...);
\* every positive power of two, 1 and 16 included, yields an n x n matrix.
C10_NonPowersOfTwoRejected ==
    (fn = "_bayer_matrix" /\ Finished)
    => /\ ~IsPowerOfTwo(arg.n) => (pc = "raise" /\ ret = Exception("ValueError"))
       /\ IsPowerOfTwo(arg.n) =>
             /\ pc = "return"
             /\ ret.kind = "matrix"
             /\ DOMAIN ret.val = 0..(arg.n - 1)

\* size 6 was refused
C10_Witness ==
    /\ fn = "_bayer_matrix"
    /\ pc = "raise"
    /\ arg.n = 6
    /\ ret = Exception("ValueError")

\* the samples dither_bayer was given and returned, as a direct call or as
\* the engine of an apply_dither call
BayerReturned == engine.fn = "dither_bayer" /\ pc = "return"

\* the uniform quantizer's rule applied to v + T * step, T = M / n2 - 0.5 and
\* step = 255 / (L - 1): level = clamp(round((v + T * step) * (L - 1) / 255))
UniformOnBiased(v, Mij, n, l) ==
    LET n2 == n * n
        biasNum == v * 2 * n2 * (l - 1) + (2 * Mij - n2) * 255
        level == Clip(NearestEven(biasNum, 2 * n2 * 255), 0, l - 1)
    IN  Clip(NearestEven(level * 255, l - 1), 0, 255)

\* C11: for every L >= 2, matrix size n in {2, 4, 8}, pixel (y, x) and
\* channel, the sample dither_bayer returns is the uniform quantizer's
\* round-to-nearest-level result for the biased sample v + T(y, x) * step.
C11_BiasedUniformQuantizer ==
    (BayerReturned /\ L >= 2 /\ engine.size \in {2, 4, 8})
    => \A y \in 0..(Height(image_array) - 1) : \A x \in 0..(Width(image_array) - 1) :
          \A c \in Channels :
              ret.val.px[y][x][c] =
                  UniformOnBiased(image_array.px[y][x][c],
                                  build(engine.size)[y % engine.size][x % engine.size],
                                  engine.size, L)

\* C12: dither_bayer called with L < 2 returns an image of the input's shape
\* with every sample 0.
C12_BayerDegenerateZero ==
    (fn = "dither_bayer" /\ Finished /\ L < 2)
    => /\ pc = "return"
       /\ ret.val.shape = image_array.shape
       /\ SamplesOf(ret.val) = {0}

\* C13: bayer2 with L = 2 on the 8 x 8 image with every sample 128 returns
\* samples 0 and 255 only, repeating with period 2 in both directions,
\* horizontally and vertically adjacent pixels differing, the three channels
\* equal.
C13_MidGrayCheckerboard ==
    (/\ fn = "apply_dither"
     /\ pc = "return"
     /\ SameIgnoringCase(arg.method, StrBayer2)
     /\ L = 2
     /\ image_array.shape = <<8, 8, 3>>
     /\ SamplesOf(image_array) = {128})
    => /\ ret.val.shape = <<8, 8, 3>>
       /\ SamplesOf(ret.val) = {0, 255}
       /\ \A y \in 0..7 : \A x \in 0..7 :
             /\ ret.val.px[y][x] = ret.val.px[y % 2][x % 2]
             /\ ret.val.px[y][x][0] = ret.val.px[y][x][1]
             /\ ret.val.px[y][x][1] = ret.val.px[y][x][2]
             /\ x < 7 => ret.val.px[y][x] # ret.val.px[y][x + 1]
             /\ y < 7 => ret.val.px[y][x] # ret.val.px[y + 1][x]

\* the call returned, black at (0, 0) and white at (0, 1)
C13_Witness ==
    /\ ApplyDitherReturned
    /\ arg.method = StrBayer2
    /\ L = 2
    /\ image_array = UniformGray(128)
    /\ ret.val.px[0][0] = Color(0, 0, 0)
    /\ ret.val.px[0][1] = Color(255, 255, 255)

\* an apply_dither call is in the loop of the Floyd-Steinberg engine on the
\* 2 x 2 gray ramp with L = 2
FloydOnGrayRamp ==
    /\ fn = "apply_dither"
    /\ engine.fn = "dither_floyd"
    /\ engine.serpentine
    /\ image_array.px = GrayRamp.px
    /\ L = 2

Gray(v) == [c \in Channels |-> v]

\* C14: Floyd-Steinberg, serpentine, L = 2, on the gray ramp [0,128;255,64]:
\* the cells are visited (0,0), (0,1), (1,1), (1,0); after (0,1), quantized to
\* 255 with error -127, cell (1,0) holds 255 - 127*3/16 = 231.1875 and cell
\* (1,1) holds 64 - 127*5/16 = 24.3125; after (1,1), quantized to 0, cell (1,0)
\* holds 231.1875 + 24.3125*7/16 = 241.82421875; the output is [0,255;255,0].
C14_FloydGrayRamp ==
    FloydOnGrayRamp =>
       /\ pc = "scan" =>
             \/ scan = [y |-> 0, x |-> 0]
             \/ /\ scan = [y |-> 0, x |-> 1]
                /\ work.px[0][0] = Gray(FInt(0))
                /\ work.px[0][1] = Gray(FInt(128))
             \/ /\ scan = [y |-> 1, x |-> 1]
                /\ work.px[0][1] = Gray(FInt(255))
                /\ work.px[1][0] = Gray(FAdd(FInt(255), FDiv(FMul(FInt(-127), 3), 16)))
                /\ work.px[1][1] = Gray(FAdd(FInt(64), FDiv(FMul(FInt(-127), 5), 16)))
             \/ /\ scan = [y |-> 1, x |-> 0]
                /\ work.px[1][1] = Gray(FInt(0))
                /\ work.px[1][0] = Gray(FDiv(FInt(61907), 256))
             \/ /\ scan.y = 2
                /\ work.px[1][0] = Gray(FInt(255))
       /\ pc = "return" =>
             /\ ret.val.px[0][0] = Color(0, 0, 0)
             /\ ret.val.px[0][1] = Color(255, 255, 255)
             /\ ret.val.px[1][0] = Color(255, 255, 255)
             /\ ret.val.px[1][1] = Color(0, 0, 0)

\* the sum of channel c over the first k cells of a row of the buffer
RECURSIVE SumRow(_, _, _)
SumRow(row, c, k) ==
    IF k = 0 THEN FInt(0)
    ELSE LET rest == SumRow(row, c, k - 1)
         IN  FAdd(rest, row[k - 1][c])

\* the sum of channel c over the first k rows of a buffer of width W
RECURSIVE SumRows(_, _, _, _)
SumRows(px, W, c, k) ==
    IF k = 0 THEN FInt(0)
    ELSE LET rest == SumRows(px, W, c, k - 1)
         IN  FAdd(rest, SumRow(px[k - 1], c, W))

\* the fractions of a pixel's error the engines are to add to its neighbours:
\* <<row delta, column delta in scan direction, numerator>> over a divisor
ClaimedFloyd == {<<0, 1, 7>>, <<1, -1, 3>>, <<1, 0, 5>>, <<1, 1, 1>>}

ClaimedAtkinson ==
    {<<0, 1, 1>>, <<0, 2, 1>>, <<1, -1, 1>>, <<1, 0, 1>>, <<1, 1, 1>>, <<2, 0, 1>>}

ClaimedSierra ==
    {<<0, 1, 5>>, <<0, 2, 3>>,
     <<1, -2, 2>>, <<1, -1, 4>>, <<1, 0, 5>>, <<1, 1, 4>>, <<1, 2, 2>>,
     <<2, -1, 2>>, <<2, 0, 3>>, <<2, 1, 2>>}

ClaimedTaps(f) ==
    CASE f = "dither_floyd" -> ClaimedFloyd
      [] f = "dither_atkinson" -> ClaimedAtkinson
      [] f = "dither_sierra" -> ClaimedSierra

ClaimedDiv(f) ==
    CASE f = "dither_floyd" -> 16
      [] f = "dither_atkinson" -> 8
      [] f = "dither_sierra" -> 32

RECURSIVE SumWeights(_)
SumWeights(taps) ==
    IF taps = {} THEN 0
    ELSE LET t == CHOOSE t \in taps : TRUE
         IN  t[3] + SumWeights(taps \ {t})

\* the neighbours of the pixel at scan that lie inside the image
TapsInside(f) ==
    {t \in ClaimedTaps(f) :
        /\ scan.y + t[1] < Height(image_array)
        /\ 0 <= scan.x + t[2] * DirSign(scan.y, engine.serpentine)
        /\ scan.x + t[2] * DirSign(scan.y, engine.serpentine) < Width(image_array)}

\* the loop of Floyd-Steinberg, Atkinson or Sierra-3 is about to process the
\* pixel at scan
AtPixel ==
    /\ pc = "scan"
    /\ engine.fn \in {"dither_floyd", "dither_atkinson", "dither_sierra"}
    /\ scan.y < Height(image_array)
    /\ L >= 2

\* the error of the pixel at scan in channel c: its value minus its level
PixelError(c) ==
    FAddInt(work.px[scan.y][scan.x][c], 0 - QuantizeLevels(work.px[scan.y][scan.x][c], L))

\* C15: processing a pixel changes the sum of a channel of the working
\* buffer by exactly the share of the pixel's error that is not handed to a
\* neighbour inside the image: the weights of the offsets outside the image
\* (weights summing to 1 for Floyd-Steinberg and Sierra-3), and for Atkinson
\* 2/8 of the error in addition.
C15_ErrorConserved ==
    [][AtPixel =>
          \A c \in Channels :
              LET f == engine.fn
                  H == Height(image_array)
                  W == Width(image_array)
                  lost == ClaimedDiv(f) - SumWeights(TapsInside(f))
              IN  /\ SumWeights(ClaimedTaps(f)) = IF f = "dither_atkinson" THEN 6 ELSE ClaimedDiv(f)
                  /\ FAdd(SumRows(work'.px, W, c, H),
                          FDiv(FMul(PixelError(c), lost), ClaimedDiv(f)))
                     = SumRows(work.px, W, c, H)]_vars

\* the weight of the offset from the pixel at scan to cell (y, x), 0 if none
ClaimedWeight(f, y, x) ==
    LET dir == DirSign(scan.y, engine.serpentine)
        hit == {t \in ClaimedTaps(f) : y = scan.y + t[1] /\ x = scan.x + t[2] * dir}
    IN  SumWeights(hit)

\* C16: when every kernel neighbour of the pixel is inside the image, the
\* step adds to each neighbour the listed fraction of the pixel's error
\* (Floyd-Steinberg 7,3,5,1 over 16; Atkinson six times 1/8; Sierra-3 5,3 /
\* 2,4,5,4,2 / 2,3,2 over 32), stores the level in the pixel itself and
\* changes no other cell; the weights sum to 1, 6/8 and 1.
C16_KernelFractions ==
    [][(AtPixel /\ TapsInside(engine.fn) = ClaimedTaps(engine.fn)) =>
          LET f == engine.fn
          IN  /\ SumWeights(ClaimedTaps(f)) = IF f = "dither_atkinson" THEN 6 ELSE ClaimedDiv(f)
              /\ \A y \in 0..(Height(image_array) - 1) : \A x \in 0..(Width(image_array) - 1) :
                    \A c \in Channels :
                        work'.px[y][x][c] =
                            IF y = scan.y /\ x = scan.x
                            THEN FInt(QuantizeLevels(work.px[y][x][c], L))
                            ELSE FAdd(work.px[y][x][c],
                                      FDiv(FMul(PixelError(c), ClaimedWeight(f, y, x)),
                                           ClaimedDiv(f)))]_vars

\* the sum of channel c over the f x f block of arr with top-left corner (y, x),
\* taken over its first k cells in row-major order
RECURSIVE BlockSum(_, _, _, _, _, _)
BlockSum(arr, y, x, f, c, k) ==
    IF k = 0 THEN 0
    ELSE LET rest == BlockSum(arr, y, x, f, c, k - 1)
         IN  rest + arr.px[y + ((k - 1) \div f)][x + ((k - 1) % f)][c]

\* v is the mean sum / n rounded to one of its two integer neighbours
IsMean(v, sum, n) == v * n > sum - n /\ v * n < sum + n

DownscaleReturned == fn = "downscale_block_average" /\ pc \in {"return", "raise"}

\* C20: downscale_block_average(arr, f) with 2 <= f <= H, W returns the
\* (H div f) x (W div f) image of the means of the f x f blocks, for f = 1
\* a copy of arr, and raises ValueError when f < 1 or f exceeds a dimension
C20_DownscaleIsBlockMean ==
    DownscaleReturned =>
        LET f == arg.factor
            H == Height(image_array)
            W == Width(image_array)
        IN  IF f < 1 \/ f > H \/ f > W THEN ret = Exception("ValueError")
            ELSE /\ ret.kind = "array"
                 /\ ret.val.shape = <<H \div f, W \div f, 3>>
                 /\ IF f = 1
                    THEN ret.val.px = image_array.px /\ ret.val.id # image_array.id
                    ELSE \A i \in 0..(H \div f - 1), j \in 0..(W \div f - 1), c \in Channels :
                             IsMean(ret.val.px[i][j][c],
                                    BlockSum(image_array, i * f, j * f, f, c, f * f), f * f)

DitherCalls == {i \in DOMAIN pipe.ops : pipe.ops[i].op = "apply_dither"}

MainSaved == fn = "main" /\ pc = "return" /\ ret = IntValue(0)

SameImage(a, b) == a.shape = b.shape /\ a.px = b.px

\* C17: a run of main makes exactly one apply_dither call, on the buffer the
\* stage names in the sequence downscale, x2, x2, x scale; the x2 steps and the
\* final upscale that the stage leaves behind the dither follow it; with
\* dither scale 1 the saved image is 4 * scale times the downscaled one
C17_StageSelectsDither ==
    (MainSaved /\ arg.stage \in Stages) =>
        LET k == DoublingsBefore(arg.stage)
            last == arg.stage = "after-final"
            doubled == Doubled(pipe.img_ds, k)
            before == IF last THEN UpscaleNearest(doubled, arg.scale, 0) ELSE doubled
            dithered == ApplyDitherResult(before, arg.colors, arg.dither, numba, 0)
            redoubled == Doubled(dithered, 2 - k)
            after == IF last THEN redoubled ELSE UpscaleNearest(redoubled, arg.scale, 0)
        IN  /\ Cardinality(DitherCalls) = 1
            /\ SameImage(pipe.base, before)
            /\ arg.dither_scale = Unscaled =>
                   /\ SameImage(pipe.saved, after)
                   /\ pipe.saved.shape = <<4 * arg.scale * Height(pipe.img_ds),
                                           4 * arg.scale * Width(pipe.img_ds), 3>>

\* main saved the 8 x 8 image of a run with pixel 2, scale 2, stage after-upscale1
C17_Witness ==
    /\ MainSaved
    /\ arg.stage = "after-upscale1"
    /\ arg.dither = StrFloyd
    /\ arg.scale = 2
    /\ arg.dither_scale = Unscaled
    /\ Height(pipe.img_ds) = 1
    /\ pipe.saved.shape = <<8, 8, 3>>
    /\ Len(pipe.ops) = 7

FrameReturned == fn = "process_frame" /\ pc = "return"

\* C18: process_frame returns, for every frame and every setting of pixel,
\* colors, stage, dither scale, scale and dither (none included), an image of
\* the dimensions and samples of the image main saves for them
C18_FrameEqualsMain ==
    (FrameReturned /\ arg.stage \in Stages) =>
        /\ ret.kind = "array"
        /\ SameImage(ret.val, MainResult(image_array, arg, numba))

\* the statement work = resize_nearest_scale(tmp, 1.0 / d_scale) has just run
ResizedBack ==
    /\ arg.dither_scale # Unscaled
    /\ pipe.ops # <<>>
    /\ pipe.ops[Len(pipe.ops)].op = "resize_nearest_scale"
    /\ pipe.ops[Len(pipe.ops)].k = Inverse(arg.dither_scale)

\* C19: resizing by the dither scale s and then by 1 / s gives a buffer of
\* exactly the height and width of the buffer the stage started from
C19_ResizeInverted ==
    ResizedBack => pipe.work.shape = pipe.base.shape

\* the place of pixel (y, x) in the claimed order of visits: rows top to
\* bottom, odd rows right to left when serpentine; H * W past the last pixel
VisitRank(pos) ==
    LET H == Height(image_array)
        W == Width(image_array)
    IN  IF pos.y >= H THEN H * W
        ELSE pos.y * W + (IF engine.serpentine /\ pos.y % 2 = 1 THEN W - 1 - pos.x ELSE pos.x)

\* C21: an engine visits the pixels one by one in the order rows top to
\* bottom, columns increasing (decreasing on odd rows when serpentine is on):
\* it starts at the first pixel of that order, every iteration moves to the
\* next one, and it returns only after the last, so each is visited once
C21_ScanOrder ==
    [][/\ (pc \in EngineFns /\ pc' = "scan") => VisitRank(scan') = 0
       /\ (pc = "scan" /\ pc' = "scan") =>
              /\ scan.y < Height(image_array) /\ scan.x \in 0..(Width(image_array) - 1)
              /\ \A c \in Channels :
                     work'.px[scan.y][scan.x][c]
                         = FInt(QuantizeLevels(work.px[scan.y][scan.x][c], L))
              /\ VisitRank(scan') = VisitRank(scan) + 1
       /\ (pc = "scan" /\ pc' = "return") =>
              VisitRank(scan) = Height(image_array) * Width(image_array)]_vars

\* an odd row of a serpentine scan has been walked right to left to its end,
\* and the scan is on the row below it
C21_Witness ==
    /\ fn \in EngineFns
    /\ pc = "scan"
    /\ engine.serpentine
    /\ Width(image_array) = 5
    /\ scan = [y |-> 2, x |-> 0]

PixelsOf(a) == {[y |-> y, x |-> x] : y \in 0..(Height(a) - 1), x \in 0..(Width(a) - 1)}

\* the cells the kernel of the engine names from the pixel at scan, inside the image
TapTargets ==
    LET dir == IF engine.serpentine /\ scan.y % 2 = 1 THEN -1 ELSE 1
        taps == KernelOf(engine.fn).taps
    IN  {[y |-> scan.y + taps[i].dy, x |-> scan.x + taps[i].dx * dir] : i \in DOMAIN taps}
            \cap PixelsOf(image_array)

\* C22: with serpentine on or off, the cells an iteration adds error to come
\* after the pixel in the order of visits; no iteration changes a cell visited
\* before it, and the quantized value stored at a visit is the sample returned
C22_ErrorFlowsForward ==
    [][/\ (pc = "scan" /\ pc' = "scan") =>
              /\ \A t \in TapTargets : VisitRank(t) > VisitRank(scan)
              /\ \A p \in PixelsOf(image_array) :
                     VisitRank(p) < VisitRank(scan) => work'.px[p.y][p.x] = work.px[p.y][p.x]
              /\ \A p \in PixelsOf(image_array) :
                     VisitRank(p) <= VisitRank(scan) =>
                         \A c \in Channels :
                             /\ work'.px[p.y][p.x][c].f = <<>>
                             /\ work'.px[p.y][p.x][c].i \in AllowedLevels(L)
       /\ (pc = "scan" /\ pc' = "return") =>
              \A p \in PixelsOf(image_array), c \in Channels :
                  ret'.val.px[p.y][p.x][c] = work.px[p.y][p.x][c].i]_vars

\* in a serpentine run the scan is in the middle of the odd row, walking right
\* to left, and error of visited pixels has reached a cell of the row below
C22_Witness ==
    /\ fn \in EngineFns
    /\ pc = "scan"
    /\ numba
    /\ engine.serpentine
    /\ image_array.shape = <<3, 5, 3>>
    /\ scan = [y |-> 1, x |-> 2]
    /\ \E c \in Channels : work.px[2][2][c] # FInt(image_array.px[2][2][c])

\* C23: an iteration writes the pixel it visits and the cells its kernel
\* names inside the image, and no other cell: an offset with column < 0,
\* column >= W or row >= H is dropped, not wrapped or reflected; images with
\* H = 1 or W = 1 are processed to the end and a valid image is returned
C23_OutOfBoundsDropped ==
    [][/\ (pc = "scan" /\ pc' = "scan") =>
              \A p \in PixelsOf(image_array) :
                  p \notin TapTargets \cup {scan} => work'.px[p.y][p.x] = work.px[p.y][p.x]
       /\ (fn \in EngineFns /\ L >= 2) =>
              /\ pc' # "raise"
              /\ pc' = "return" =>
                     /\ ret'.kind = "array"
                     /\ ret'.val.shape = image_array.shape
                     /\ \A p \in PixelsOf(image_array), c \in Channels :
                            ret'.val.px[p.y][p.x][c] \in 0..255]_vars

\* two pixels of a one-column image are done: their offsets to the left and
\* right fell outside, the error sent down has reached the third pixel
C23_Witness ==
    /\ fn \in EngineFns
    /\ pc = "scan"
    /\ scan = [y |-> 2, x |-> 0]
    /\ numba
    /\ image_array.shape = <<3, 1, 3>>
    /\ \E c \in Channels : work.px[2][0][c] # FInt(image_array.px[2][0][c])

\* C25: an error-diffusion engine called with L = 1 does not fail: it returns
\* an image of the input's shape with every sample 0
C25_OneLevelDefined ==
    (fn \in EngineFns /\ L = 1 /\ pc \in {"return", "raise"}) =>
        /\ pc = "return"
        /\ ret.kind = "array"
        /\ ret.val.shape = image_array.shape
        /\ \A p \in PixelsOf(image_array), c \in Channels : ret.val.px[p.y][p.x][c] = 0

\* the sample of image a at pixel p, channel c
SampleAt(a, p, c) == a.px[p.y][p.x][c]

\* C24: dither_bayer uses at pixel (y, x) the threshold of matrix entry
\* (y mod n, x mod n); its output sample at (y, x, c) is determined by the
\* input sample at (y, x, c), L and (y mod n, x mod n): equal for two pixels
\* or channels that agree in these, and for two images that agree at the pixel
C24_NoCrossPixelDependency ==
    (BayerReturned /\ fn = "apply_dither") =>
        LET n == engine.size
            out == ret.val
        IN  /\ \A p \in PixelsOf(image_array), c \in Channels :
                   SampleAt(out, p, c)
                       = BayerSample(SampleAt(image_array, p, c),
                                     build(n)[p.y % n][p.x % n], n, L)
            /\ \A p, q \in PixelsOf(image_array), c, d \in Channels :
                   (/\ SampleAt(image_array, p, c) = SampleAt(image_array, q, d)
                    /\ p.y % n = q.y % n
                    /\ p.x % n = q.x % n)
                       => SampleAt(out, p, c) = SampleAt(out, q, d)
            /\ \A other \in ImageInputs :
                   \A p \in PixelsOf(image_array) \cap PixelsOf(other), c \in Channels :
                       SampleAt(other, p, c) = SampleAt(image_array, p, c)
                           => SampleAt(DitherBayerArray(other, L, n, 0), p, c)
                                  = SampleAt(out, p, c)

\* bayer2 has run on the 3 x 5 image, whose rows and columns outrun one tile
C24_Witness ==
    /\ BayerReturned
    /\ fn = "apply_dither"
    /\ engine.size = 2
    /\ image_array.shape = <<3, 5, 3>>
    /\ ret.val.shape = <<3, 5, 3>>

StreamReturned == fn = "_process_frame_rgb" /\ pc = "return"

CallsOf(op, k) == {i \in DOMAIN pipe.ops : pipe.ops[i].op = op /\ pipe.ops[i].k = k}

\* C26: for every dither stage a frame goes through downscale, x2 upscale,
\* dither, x2 upscale, final scale, so the frame returned is 4 * final_scale
\* times the downscaled one in height and width
C26_StreamSameSizeEveryStage ==
    StreamReturned =>
        LET fs == IF arg.final_scale = 0 THEN 1 ELSE arg.final_scale
        IN  /\ Cardinality(CallsOf("apply_dither", 0)) = 1
            /\ Cardinality(CallsOf("upscale_nearest", 2)) = 2
            /\ ret.val.shape = <<4 * fs * Height(pipe.base), 4 * fs * Width(pipe.base), 3>>

VideoDone == fn = "video_main" /\ pc = "return" /\ ret = IntValue(0)

\* the indices start <= idx < min(end, N) of a video of N frames
FramesWanted ==
    {i \in 0..(video.n - 1) : arg.start <= i /\ (arg.end.none \/ i < arg.end.val)}

\* C29: of a video of N frames, main writes exactly the frames start <= idx <
\* min(end, N), or idx < N when end is absent: each once, in increasing order,
\* the result of frame idx to the file of index idx; it processes no frame and
\* reads none after the first index >= end, and reports the number of files
C29_FramesWritten ==
    /\ fn = "video_main" =>
           /\ \A k \in DOMAIN video.order : video.order[k] \in FramesWanted
           /\ \A k \in DOMAIN video.order : k > 1 => video.order[k - 1] < video.order[k]
           /\ ~arg.end.none =>
                  video.reads <= Max(0, Max(arg.start, arg.end.val)) + 1
    /\ VideoDone =>
           /\ DOMAIN video.files = FramesWanted
           /\ Len(video.order) = Cardinality(FramesWanted)
           /\ \A i \in FramesWanted :
                  video.files[i] = ProcessFrameResult(FrameImage(i), FrameArgs(arg), numba)
           /\ video.printed = Cardinality(DOMAIN video.files)

\* frames 1 and 2 of a video of four frames were written, for start 1 and end 3
C29_Witness ==
    /\ VideoDone
    /\ video.n = 4
    /\ arg.start = 1
    /\ arg.end = EndAt(3)
    /\ video.order = <<1, 2>>
    /\ video.printed = 2

\* C30: for an integer k >= 1, resize_nearest_scale(arr, k) returns the image
\* upscale_nearest(arr, k) returns: output pixel (y, x) is input pixel
\* (y div k, x div k)
C30_IntegerResizeIsUpscale ==
    (fn = "resize_nearest_scale" /\ pc \in {"return", "raise"} /\ arg.scale >= 1) =>
        /\ ret.kind = "array"
        /\ SameImage(ret.val, UpscaleNearest(image_array, arg.scale, 0))
        /\ \A p \in PixelsOf(ret.val) :
               ret.val.px[p.y][p.x] = image_array.px[p.y \div arg.scale][p.x \div arg.scale]

\* at most one timer is scheduled and _pending_update names it; after a
\* change it is due debounce_ms after that change
OneTimerPending ==
    /\ Cardinality(ui.timers) <= 1
    /\ ui.pending = 0 <=> ui.timers = {}
    /\ \A t \in ui.timers : t = Timer(ui.pending, ui.last_change + debounce_ms)

\* the _start_worker calls since the last parameter change
OneStartPerBurst ==
    /\ ui.since_change <= 1
    /\ ui.pending # 0 => ui.since_change = 0
    /\ ui.pending = 0 /\ ui.changes > 0 => ui.since_change = 1

\* a parameter change leaves exactly the newly scheduled timer
ChangeReschedules ==
    ui'.changes = ui.changes + 1
        => /\ ui'.timers = {Timer(ui'.pending, ui.now + debounce_ms)}
           /\ ui'.pending \notin {t.id : t \in ui.timers}

\* _start_worker runs when debounce_ms have passed since the last change
StartAfterQuiet ==
    ui'.since_change = ui.since_change + 1
        => /\ ui.pending # 0
           /\ ui.now >= ui.last_change + debounce_ms
           /\ ui'.timers = {}

\* C27: at every moment at most one debounce timer is pending; each parameter
\* change cancels the pending timer and schedules a new one; a burst of
\* changes closer than debounce_ms is followed by exactly one _start_worker
\* call, which comes debounce_ms or more after the last change of the burst.
C27_DebounceOneWorker ==
    /\ [](OneTimerPending /\ OneStartPerBurst)
    /\ [][ChangeReschedules /\ StartAfterQuiet]_vars
    /\ (ui.pending # 0) ~> (ui.pending = 0 /\ ui.since_change = 1)

\* several changes came before the only worker was started
C27_Witness ==
    /\ pc = "mainloop"
    /\ ui.changes >= 2
    /\ Len(ui.workers) = 1
    /\ ui.pending = 0
    /\ ui.tk = "idle"

\* every worker has returned and every posted callback has run
UiQuiescent(u) ==
    /\ u.tk = "idle"
    /\ u.queue = <<>>
    /\ \A w \in DOMAIN u.workers : u.workers[w].st = "done"

\* C28: a worker that was still running when _start_worker started the next
\* one never updates the canvas, and once the workers have finished the
\* canvas shows the result of the most recently started worker.
C28_SupersededWorkerSilent ==
    [][/\ ui'.canvas # ui.canvas => ~ui.workers[ui'.canvas.w].superseded
       /\ (UiQuiescent(ui') /\ ui'.loaded /\ Len(ui'.workers) >= 2
              /\ \E w \in DOMAIN ui'.workers : ui'.workers[w].superseded)
            => ui'.canvas.w = Len(ui'.workers)]_vars

=============================================================================
